---- MODULE Spec2Model ----
(***************************************************************************)
(* Palette-extraction engine of colorlook (utils/auto_palette): the        *)
(* hierarchical merge and its partition, the k-d tree index, G-means,      *)
(* DBSCAN and the palette pipeline.  Floats are modelled by integers:      *)
(* coordinates are grid units, distances are kept as exact squared sums    *)
(* and compared the way the code compares them.                            *)
(***************************************************************************)
EXTENDS Integers, Sequences, FiniteSets, TLC

\* ------------------------------------------------------------------ bounds
MaxLeaves == 3      \* items handed to fit_with_linkage
MaxDist == 2        \* largest pairwise distance of the dataset
MaxN == 5           \* largest n asked of partition / swatches

\* F::max_value(): larger than every distance the model can produce
MaxValue == 2000000000
\* Option::None for a usize
None == -1

Min(a, b) == IF a <= b THEN a ELSE b
Max(a, b) == IF a >= b THEN a ELSE b
Abs(a) == IF a < 0 THEN 0 - a ELSE a

\* ------------------------------------------------- std BinaryHeap (max-heap)
\* Entries are Priority(item, key); Priority compares the key only.  A
\* Reverse(Priority(..)) entry is stored with the key negated.
RECURSIVE SiftUp(_, _, _, _)
SiftUp(data, start, pos, elt) ==
    IF pos > start
    THEN LET parent == (pos - 1) \div 2 IN
         IF elt.key <= data[parent + 1].key
         THEN [data EXCEPT ![pos + 1] = elt]
         ELSE SiftUp([data EXCEPT ![pos + 1] = data[parent + 1]], start, parent, elt)
    ELSE [data EXCEPT ![pos + 1] = elt]

\* A push that leaves the new entry at the end, whatever its key
HeapPushLast(data, x) == Append(data, x)

HeapPush(data, x) == SiftUp(Append(data, x), 0, Len(data), x)

RECURSIVE SiftDownToBottom(_, _, _)
SiftDownToBottom(data, pos, elt) ==
    LET end == Len(data)
        child == 2 * pos + 1
    IN  IF end >= 2 /\ child <= end - 2
        THEN LET c == IF data[child + 1].key <= data[child + 2].key
                      THEN child + 1 ELSE child
             IN  SiftDownToBottom([data EXCEPT ![pos + 1] = data[c + 1]], c, elt)
        ELSE IF child = end - 1
             THEN SiftUp([data EXCEPT ![pos + 1] = data[child + 1]], 0, child, elt)
             ELSE SiftUp(data, 0, pos, elt)

\* heap.pop() on a non-empty heap: the popped entry and the remaining heap
HeapPop(data) ==
    LET last == data[Len(data)]
        rest == SubSeq(data, 1, Len(data) - 1)
    IN  IF rest = <<>>
        THEN [item |-> last, heap |-> <<>>]
        ELSE [item |-> rest[1],
              heap |-> SiftDownToBottom([rest EXCEPT ![1] = last], 0, last)]

\* ------------------------------------------------- hierarchical/linkage.rs
\* Pairs i < j of a dataset of n items: the domain of its distance function
Pairs(n) == {p \in (0 .. n - 1) \X (0 .. n - 1) : p[1] < p[2]}

\* DistanceMatrix::index (0-based)
MatrixIndex(m, i, j) ==
    LET lo == Min(i, j)
        hi == Max(i, j)
    IN  Len(m.distances) - ((m.size - lo + 1) * (m.size - lo)) \div 2 + hi - lo

MatrixGet(m, i, j) == m.distances[MatrixIndex(m, i, j) + 1]

MatrixSet(m, i, j, value) ==
    [m EXCEPT !.distances[MatrixIndex(m, i, j) + 1] = value]

\* DistanceMatrix::new
MatrixNew(n, dist) ==
    LET size == n * 2 - 1
        capacity == (size * (size + 1)) \div 2
        blank == [distances |-> [x \in 1 .. capacity |-> MaxValue], size |-> size]
        cell(x) == {p \in Pairs(n) : MatrixIndex(blank, p[1], p[2]) + 1 = x}
    IN  [distances |-> [x \in 1 .. capacity |->
                          IF cell(x) = {} THEN MaxValue
                          ELSE dist[CHOOSE p \in cell(x) : TRUE]],
         size |-> size]

\* CompleteLinkage::new
LinkageNew(n, dist) ==
    [kind |-> "CompleteLinkage", matrix |-> MatrixNew(n, dist), inactive |-> {},
     next_index |-> n]

\* SingleLinkage::new
SingleLinkageNew(n, dist) ==
    [kind |-> "SingleLinkage", matrix |-> MatrixNew(n, dist), inactive |-> {},
     next_index |-> n]

\* Linkage::distance (the same for both linkages)
LinkageDistance(lk, i, j) ==
    IF i \in lk.inactive \/ j \in lk.inactive
    THEN MaxValue
    ELSE MatrixGet(lk.matrix, i, j)

\* A merge loop that gives the new node the distances of its first child
RECURSIVE MergeLoopByFirstChild(_, _, _, _)
MergeLoopByFirstChild(lk, i, j, k) ==
    IF k >= lk.next_index THEN lk
    ELSE MergeLoopByFirstChild(
             [lk EXCEPT !.matrix = MatrixSet(lk.matrix, k, lk.next_index,
                                             IF i = k THEN LinkageDistance(lk, j, k)
                                             ELSE LinkageDistance(lk, i, k))],
             i, j, k + 1)

RECURSIVE CompleteMergeLoop(_, _, _, _)
CompleteMergeLoop(lk, i, j, k) ==
    IF k >= lk.next_index THEN lk
    ELSE LET distance1 == LinkageDistance(lk, i, k)
             distance2 == LinkageDistance(lk, j, k)
             value == IF i = k THEN distance2
                      ELSE IF j = k THEN distance1
                      ELSE Max(distance1, distance2)
         IN  CompleteMergeLoop(
                 [lk EXCEPT !.matrix = MatrixSet(lk.matrix, k, lk.next_index, value)],
                 i, j, k + 1)

\* CompleteLinkage::merge: the linkage afterwards (the label is the old next_index)
CompleteMerge(lk, i, j) ==
    LET filled == CompleteMergeLoop(lk, i, j, 0)
    IN  [filled EXCEPT !.inactive = lk.inactive \cup {i, j},
                       !.next_index = lk.next_index + 1]

RECURSIVE SingleMergeLoop(_, _, _, _)
SingleMergeLoop(lk, i, j, k) ==
    IF k >= lk.next_index THEN lk
    ELSE SingleMergeLoop(
             [lk EXCEPT !.matrix = MatrixSet(lk.matrix, k, lk.next_index,
                                             Min(LinkageDistance(lk, i, k),
                                                 LinkageDistance(lk, j, k)))],
             i, j, k + 1)

\* SingleLinkage::merge: the linkage afterwards
SingleMerge(lk, i, j) ==
    LET filled == SingleMergeLoop(lk, i, j, 0)
    IN  [filled EXCEPT !.inactive = lk.inactive \cup {i, j},
                       !.next_index = lk.next_index + 1]

\* linkage.merge(label1, label2) of the linkage handed to fit_with_linkage
LinkageMerge(lk, i, j) ==
    IF lk.kind = "SingleLinkage" THEN SingleMerge(lk, i, j) ELSE CompleteMerge(lk, i, j)

\* ------------------------------------------------ hierarchical/algorithm.rs
Linkages == {"SingleLinkage", "CompleteLinkage"}

\* Node::new
Node(label, node1, node2, distance) ==
    [label |-> label, node1 |-> node1, node2 |-> node2, distance |-> distance]

RECURSIVE InitialPairs(_, _, _, _, _)
InitialPairs(lk, n, i, j, heap) ==
    IF i >= n THEN heap
    ELSE IF j >= n THEN InitialPairs(lk, n, i + 1, i + 2, heap)
    ELSE InitialPairs(lk, n, i, j + 1,
            HeapPush(heap, [item |-> <<i, j>>, key |-> 0 - LinkageDistance(lk, i, j)]))

\* A merge loop that pushes no distance to the node it made
PushNoDistances(lk, inactive, label, i, heap) == heap

RECURSIVE PushNewDistances(_, _, _, _, _)
PushNewDistances(lk, inactive, label, i, heap) ==
    IF i >= label THEN heap
    ELSE IF i \in inactive THEN PushNewDistances(lk, inactive, label, i + 1, heap)
    ELSE PushNewDistances(lk, inactive, label, i + 1,
            HeapPush(heap, [item |-> <<i, label>>, key |-> 0 - LinkageDistance(lk, i, label)]))

RECURSIVE FitLoop(_, _, _, _)
FitLoop(nodes, heap, inactive, lk) ==
    IF heap = <<>> THEN nodes
    ELSE LET popped == HeapPop(heap)
             label1 == popped.item.item[1]
             label2 == popped.item.item[2]
             distance == 0 - popped.item.key
         IN  IF label1 \in inactive \/ label2 \in inactive
             THEN FitLoop(nodes, popped.heap, inactive, lk)
             ELSE LET label == lk.next_index
                      lk2 == LinkageMerge(lk, label1, label2)
                      inactive2 == inactive \cup {label1, label2}
                      nodes2 == Append(nodes, Node(label, label1, label2, distance))
                  IN  FitLoop(nodes2,
                              PushNewDistances(lk2, inactive2, label, 0, popped.heap),
                              inactive2, lk2)

\* Dendrogram::new(n_dataset * 2 - 1) in fit_with_linkage: the capacity asked for
DendrogramCapacity(n_dataset) == n_dataset * 2 - 1

\* fit_with_linkage panics: the capacity is below 0 in usize (an overflow
\* panic, or with wrapping arithmetic a capacity overflow in Vec::with_capacity)
FitPanics(n_dataset) == DendrogramCapacity(n_dataset) < 0

\* HierarchicalClustering::fit_with_linkage with CompleteLinkage over n >= 1 items
FitWithLinkage(n, dist) ==
    LET lk == LinkageNew(n, dist)
        leaves == [i \in 1 .. n |-> Node(i - 1, None, None, 0)]
    IN  FitLoop(leaves, InitialPairs(lk, n, 0, 1, <<>>), {}, lk)

\* HierarchicalClustering::fit: fit_with_linkage with SingleLinkage
Fit(n, dist) ==
    LET lk == SingleLinkageNew(n, dist)
        leaves == [i \in 1 .. n |-> Node(i - 1, None, None, 0)]
    IN  FitLoop(leaves, InitialPairs(lk, n, 0, 1, <<>>), {}, lk)

\* ----------------------------------------------- hierarchical/dendrogram.rs
Truncate(s, n) == IF Len(s) > n THEN SubSeq(s, 1, n) ELSE s

RECURSIVE PartitionLoop(_, _, _, _)
PartitionLoop(nodes, n, heap, membership) ==
    IF Len(membership) >= n THEN membership
    ELSE IF Len(heap) + Len(membership) >= n
    THEN Truncate(membership \o [x \in 1 .. Len(heap) |-> nodes[heap[x].item + 1]], n)
    ELSE IF heap = <<>> THEN membership
    ELSE LET popped == HeapPop(heap)
             node == nodes[popped.item.item + 1]
             child1 == nodes[node.node1 + 1]
             child2 == nodes[node.node2 + 1]
             heap1 == IF node.node1 # None
                      THEN HeapPush(popped.heap, [item |-> child1.label, key |-> child1.distance])
                      ELSE popped.heap
             mem1 == IF node.node1 # None THEN membership ELSE Append(membership, node)
             heap2 == IF node.node2 # None
                      THEN HeapPush(heap1, [item |-> child2.label, key |-> child2.distance])
                      ELSE heap1
             mem2 == IF node.node2 # None THEN mem1 ELSE Append(mem1, node)
         IN  PartitionLoop(nodes, n, heap2, mem2)

\* Dendrogram::partition
Partition(nodes, n) ==
    LET last == nodes[Len(nodes)]
        heap == IF nodes = <<>> THEN <<>>
                ELSE <<[item |-> last.label, key |-> last.distance]>>
    IN  PartitionLoop(nodes, n, heap, <<>>)

\* Leaves of the subtree of a node (its transitive membership)
RECURSIVE LeafSet(_, _)
LeafSet(nodes, label) ==
    LET node == nodes[label + 1]
    IN  IF node.node1 = None /\ node.node2 = None THEN {label}
        ELSE (IF node.node1 = None THEN {} ELSE LeafSet(nodes, node.node1))
             \cup (IF node.node2 = None THEN {} ELSE LeafSet(nodes, node.node2))

\* ---------------------------------------------------- color / swatch / theme
MaxSwatches == 3    \* swatches of a palette
MaxPop == 2         \* largest population of a palette swatch

\* The colours of the palettes of the model, as Lab in whole units
DarkGray == [l |-> 20, a |-> 0, b |-> 0]
LightGray == [l |-> 80, a |-> 0, b |-> 0]
VividRed == [l |-> 50, a |-> 64, b |-> 0]
MidGray == [l |-> 50, a |-> 0, b |-> 0]
ColorSet == {DarkGray, LightGray, VividRed, MidGray}

\* The same colours as a list: a palette of the model holds them in this order
ColorList == <<DarkGray, MidGray, VividRed, LightGray>>

\* A float that is not a number (0/0 and everything computed from it)
NaN == -999999
NaNColor == [l |-> NaN, a |-> NaN, b |-> NaN]

\* Number::clamp
Clamp(x, lo, hi) == IF x = NaN THEN NaN ELSE IF x < lo THEN lo ELSE IF x > hi THEN hi ELSE x

\* ciede2000 of two colours of ColorSet, in hundredths: the values of the
\* formula of delta_e.rs on these Lab triples
DeltaE2000(c1, c2) ==
    IF c1 = c2 THEN 0
    ELSE IF {c1, c2} = {DarkGray, LightGray} THEN 6000
    ELSE IF {c1, c2} \in {{DarkGray, VividRed}, {LightGray, VividRed}} THEN 3632
    ELSE IF {c1, c2} = {VividRed, MidGray} THEN 2664
    ELSE 2468

\* Swatch::new
Swatch(color, position, population) ==
    [color |-> color, position |-> position, population |-> population]

\* Swatch::distance
SwatchDistance(swatch1, swatch2) == DeltaE2000(swatch1.color, swatch2.color)

\* Float::sqrt, rounded down
Sqrt(x) == CHOOSE r \in 0 .. 182 : r * r <= x /\ x < (r + 1) * (r + 1)

\* Color::chroma
Chroma(color) ==
    IF color.a = NaN THEN NaN ELSE Sqrt(color.a * color.a + color.b * color.b)

Themes == {"Vivid", "Muted", "Light", "Dark"}

\* Theme::weight(swatch).value(), times 128 for Vivid and Muted and times 100
\* for Light and Dark; "population" is the score of Palette::swatches
Score(theme, swatch) ==
    IF theme = "population" THEN swatch.population
    ELSE IF swatch.color.l = NaN THEN NaN
    ELSE IF theme = "Vivid" THEN Clamp(Clamp(Chroma(swatch.color), 0, 128), 0, 128)
    ELSE IF theme = "Muted" THEN Clamp(128 - Clamp(Chroma(swatch.color), 0, 128), 0, 128)
    ELSE IF theme = "Light" THEN Clamp(swatch.color.l, 0, 100)
    ELSE Clamp(100 - swatch.color.l, 0, 100)

\* Color::mix with ratio num / den
Mix(c1, c2, num, den) ==
    IF c1.l = NaN \/ c2.l = NaN THEN NaNColor
    ELSE [l |-> Clamp(c1.l + ((c2.l - c1.l) * num) \div den, 0, 100),
          a |-> Clamp(c1.a + ((c2.a - c1.a) * num) \div den, 0 - 128, 127),
          b |-> Clamp(c1.b + ((c2.b - c1.b) * num) \div den, 0 - 128, 127)]

\* ------------------------------------------------------------- palette.rs
RECURSIVE FindSwatch(_, _, _, _)
FindSwatch(swatches, nodes, root, theme) ==
    LET root_node == nodes[root + 1]
    IN  IF root_node.node1 # None /\ root_node.node2 # None
        THEN LET swatch1 == FindSwatch(swatches, nodes, root_node.node1, theme)
                 swatch2 == FindSwatch(swatches, nodes, root_node.node2, theme)
                 score1 == Score(theme, swatch1)
                 score2 == Score(theme, swatch2)
                 nan == score1 = NaN \/ score2 = NaN \/ score1 + score2 = 0
                 color == IF nan THEN NaNColor
                          ELSE Mix(swatch1.color, swatch2.color, score2, score1 + score2)
                 position == IF ~nan /\ 2 * score2 <= score1 + score2
                             THEN swatch1.position ELSE swatch2.position
             IN  Swatch(color, position, swatch1.population + swatch2.population)
        ELSE IF root_node.node1 # None
             THEN FindSwatch(swatches, nodes, root_node.node1, theme)
        ELSE IF root_node.node2 # None
             THEN FindSwatch(swatches, nodes, root_node.node2, theme)
        ELSE swatches[root + 1]

\* Palette::find_swatches on a non-empty palette
FindSwatches(swatches, n, theme) ==
    LET m == Len(swatches)
        dist == [p \in Pairs(m) |-> SwatchDistance(swatches[p[1] + 1], swatches[p[2] + 1])]
        nodes == FitWithLinkage(m, dist)
        chosen == Partition(nodes, n)
    IN  [x \in 1 .. Len(chosen) |-> FindSwatch(swatches, nodes, chosen[x].label, theme)]

\* A grouping by the difference of the scores of a theme
FindGroupsByScore(swatches, n, theme) ==
    LET m == Len(swatches)
        dist == [p \in Pairs(m) |->
                    Abs(Score(theme, swatches[p[1] + 1]) - Score(theme, swatches[p[2] + 1]))]
        Leaves(nodes) ==
            LET Of(chosen) == [x \in 1 .. Len(chosen) |-> LeafSet(nodes, chosen[x].label)]
            IN  Of(Partition(nodes, n))
    IN  Leaves(FitWithLinkage(m, dist))

\* The grouping of Palette::find_swatches with the score function of a theme:
\* the leaf sets of the nodes chosen by partition, in its order
FindGroups(swatches, n, theme) ==
    LET m == Len(swatches)
        dist == [p \in Pairs(m) |-> SwatchDistance(swatches[p[1] + 1], swatches[p[2] + 1])]
        Leaves(nodes) ==
            LET Of(chosen) == [x \in 1 .. Len(chosen) |-> LeafSet(nodes, chosen[x].label)]
            IN  Of(Partition(nodes, n))
    IN  Leaves(FitWithLinkage(m, dist))

\* slice::sort_by_key(Reverse(key)) / sort_by(.. .reverse()): a stable sort,
\* descending; a NaN key compares Equal to every key
RECURSIVE InsertDesc(_, _, _)
InsertDesc(sorted, x, theme) ==
    IF sorted = <<>> THEN <<x>>
    ELSE LET last == sorted[Len(sorted)]
             kx == Score(theme, x)
             kl == Score(theme, last)
         IN  IF kx = NaN \/ kl = NaN \/ kx <= kl
             THEN Append(sorted, x)
             ELSE Append(InsertDesc(SubSeq(sorted, 1, Len(sorted) - 1), x, theme), last)

RECURSIVE SortDesc(_, _)
SortDesc(s, theme) ==
    IF s = <<>> THEN <<>>
    ELSE InsertDesc(SortDesc(SubSeq(s, 1, Len(s) - 1), theme), s[Len(s)], theme)

\* Palette::swatches
Swatches(swatches, n) ==
    IF swatches = <<>> THEN <<>>
    ELSE SortDesc(FindSwatches(swatches, n, "population"), "population")

\* Palette::swatches_with_theme
SwatchesWithTheme(swatches, n, theme) ==
    IF swatches = <<>> THEN <<>>
    ELSE Truncate(SortDesc(FindSwatches(swatches, n, theme), theme), n)

\* find_swatches on every palette, the empty one included
FindSwatchesPanicsAlways(swatches, n) == FitPanics(Len(swatches))

\* Palette::swatches and Palette::swatches_with_theme panic: find_swatches is
\* reached and fit_with_linkage panics
SwatchesPanics(swatches, n) ==
    IF swatches = <<>> THEN FALSE ELSE FitPanics(Len(swatches))

\* ------------------------------------------------------ math/distance.rs
MaxPoints == 3      \* points of an index
MaxCoord == 2       \* largest grid coordinate of a point
MaxK == 3           \* largest k asked of search
MaxRadius == 3      \* largest radius asked of search_radius, in Unit^2

\* A float coordinate is a model coordinate divided by Scale: the points lie
\* in the unit square the pipeline normalises pixels to.  Grid coordinates
\* are multiples of Unit, which every cluster size divides, so that the
\* centroid of a cluster is a model coordinate too.
Scale == 2520
Unit == Scale \div MaxCoord

\* Point::dimension
Dimension(point) == Len(point)
Grid == {<<x * Unit, y * Unit>> : x, y \in 0 .. MaxCoord}
Metrics == {"Euclidean", "SquaredEuclidean"}

\* squared_euclidean, in units of 1 / Scale^2
RECURSIVE SquaredSum(_, _, _)
SquaredSum(point1, point2, d) ==
    IF d = 0 THEN 0
    ELSE SquaredSum(point1, point2, d - 1) + (point1[d] - point2[d]) * (point1[d] - point2[d])

SquaredEuclidean(point1, point2) == SquaredSum(point1, point2, Dimension(point1))

\* DistanceMetric::measure.  A measured distance is kept as the squared sum s:
\* it stands for sqrt(s) / Scale under Euclidean and for s / Scale^2 under
\* SquaredEuclidean; two distances of one metric compare as their sums do.
Measure(metric, point1, point2) == SquaredEuclidean(point1, point2)

\* A test that sends every search down one side of a node only
DeltaNeverWithin(metric, delta, distance) == FALSE

\* delta.abs() <= distance, for a coordinate difference delta / Scale
DeltaLeDistance(metric, delta, distance) ==
    IF metric = "Euclidean" THEN delta * delta <= distance
    ELSE Abs(delta) * Scale <= distance

\* delta.abs() < distance
DeltaLtDistance(metric, delta, distance) ==
    IF metric = "Euclidean" THEN delta * delta < distance
    ELSE Abs(delta) * Scale < distance

\* Neighbor::new
Neighbor(index, distance) == [index |-> index, distance |-> distance]

\* sort_unstable_by on the distance, ascending
RECURSIVE InsertByDistance(_, _)
InsertByDistance(sorted, x) ==
    IF sorted = <<>> THEN <<x>>
    ELSE LET last == sorted[Len(sorted)]
         IN  IF last.distance <= x.distance THEN Append(sorted, x)
             ELSE Append(InsertByDistance(SubSeq(sorted, 1, Len(sorted) - 1), x), last)

RECURSIVE SortByDistance(_)
SortByDistance(s) ==
    IF s = <<>> THEN <<>>
    ELSE InsertByDistance(SortByDistance(SubSeq(s, 1, Len(s) - 1)), s[Len(s)])

\* ---------------------------------------------- neighbors/linear/search.rs
\* LinearSearch::search
LinearSearch(points, metric, query, k) ==
    IF k = 0 THEN <<>>
    ELSE Truncate(SortByDistance(
            [i \in 1 .. Len(points) |-> Neighbor(i - 1, Measure(metric, points[i], query))]), k)

\* The neighbors of s within the radius, in order
RECURSIVE FilterWithin(_, _)
FilterWithin(s, radius) ==
    IF s = <<>> THEN <<>>
    ELSE LET rest == FilterWithin(SubSeq(s, 1, Len(s) - 1), radius)
             x == s[Len(s)]
         IN  IF x.distance <= radius THEN Append(rest, x) ELSE rest

\* LinearSearch::search_radius; the radius is given like a measured distance
\* (as a squared sum), a negative number standing for a negative radius
LinearSearchRadius(points, metric, query, radius) ==
    IF radius < 0 THEN <<>>
    ELSE SortByDistance(FilterWithin(
            [i \in 1 .. Len(points) |-> Neighbor(i - 1, Measure(metric, points[i], query))],
            radius))

\* ---------------------------------------------- neighbors/kdtree/search.rs
Swap(s, i, j) == [s EXCEPT ![i] = s[j], ![j] = s[i]]

\* while value_fn(&slice[left]) < pivot_value { left += 1 }   (0-based left)
RECURSIVE ScanLeft(_, _, _, _, _)
ScanLeft(slice, points, axis, pivot_value, left) ==
    IF points[slice[left + 1] + 1][axis + 1] < pivot_value
    THEN ScanLeft(slice, points, axis, pivot_value, left + 1)
    ELSE left

\* while value_fn(&slice[right]) > pivot_value { right -= 1 }
RECURSIVE ScanRight(_, _, _, _, _)
ScanRight(slice, points, axis, pivot_value, right) ==
    IF points[slice[right + 1] + 1][axis + 1] > pivot_value
    THEN ScanRight(slice, points, axis, pivot_value, right - 1)
    ELSE right

RECURSIVE PartitionByKeyLoop(_, _, _, _, _, _)
PartitionByKeyLoop(slice, points, axis, pivot_value, left, right) ==
    IF left > right THEN [slice |-> slice, index |-> left - 1]
    ELSE LET l == ScanLeft(slice, points, axis, pivot_value, left)
             r == ScanRight(slice, points, axis, pivot_value, right)
         IN  IF l <= r
             THEN PartitionByKeyLoop(Swap(slice, l + 1, r + 1), points, axis,
                                     pivot_value, l + 1, r - 1)
             ELSE PartitionByKeyLoop(slice, points, axis, pivot_value, l, r)

\* KDTreeSearch::partition_by_key: the slice afterwards and the returned index
PartitionByKey(slice, points, axis) ==
    LET pivot == Len(slice) \div 2
        pivot_value == points[slice[pivot + 1] + 1][axis + 1]
    IN  PartitionByKeyLoop(slice, points, axis, pivot_value, 0, Len(slice) - 1)

\* KDTreeSearch::find_nth_index: the slice afterwards and the returned index
RECURSIVE FindNthIndex(_, _, _, _)
FindNthIndex(slice, n, points, axis) ==
    IF Len(slice) <= 1 THEN [slice |-> slice, index |-> 0]
    ELSE LET p == PartitionByKey(slice, points, axis)
             pivot_index == p.index
             len == Len(slice)
         IN  IF n < pivot_index
             THEN LET sub == FindNthIndex(SubSeq(p.slice, 1, pivot_index), n, points, axis)
                  IN  [slice |-> sub.slice \o SubSeq(p.slice, pivot_index + 1, len),
                       index |-> sub.index]
             ELSE IF n > pivot_index
             THEN LET sub == FindNthIndex(SubSeq(p.slice, pivot_index + 2, len),
                                          n - pivot_index - 1, points, axis)
                  IN  [slice |-> SubSeq(p.slice, 1, pivot_index + 1) \o sub.slice,
                       index |-> sub.index + pivot_index + 1]
             ELSE [slice |-> p.slice, index |-> pivot_index]

\* Option<KDNode>::None
NoNode == [index |-> None]

\* KDNode::new
KDNode(index, axis, left, right) ==
    [index |-> index, axis |-> axis, left |-> left, right |-> right]

\* KDNode::is_leaf
IsLeaf(node) == node.left.index = None /\ node.right.index = None

\* KDTreeSearch::build_node
RECURSIVE BuildNode(_, _, _)
BuildNode(points, indices, depth) ==
    IF indices = <<>> THEN NoNode
    ELSE LET axis == depth % Dimension(points[1])
             median == Len(indices) \div 2
             found == FindNthIndex(indices, median, points, axis)
         IN  KDNode(found.slice[found.index + 1], axis,
                    BuildNode(points, SubSeq(found.slice, 1, median), depth + 1),
                    BuildNode(points, SubSeq(found.slice, median + 2, Len(indices)), depth + 1))

\* KDTreeSearch::new: the root
KDTreeNew(points) == BuildNode(points, [i \in 1 .. Len(points) |-> i - 1], 0)

\* KDTreeSearch::search_recursively
RECURSIVE SearchRecursively(_, _, _, _, _, _)
SearchRecursively(points, metric, root, query, k, neighbors) ==
    IF root.index = None THEN neighbors
    ELSE LET point == points[root.index + 1]
             distance == Measure(metric, point, query)
             neighbor == Neighbor(root.index, distance)
             found == IF Len(neighbors) < k
                      THEN SortByDistance(Append(neighbors, neighbor))
                      ELSE IF distance < neighbors[k].distance
                      THEN SortByDistance(
                              Append(SubSeq(neighbors, 1, Len(neighbors) - 1), neighbor))
                      ELSE neighbors
             delta == query[root.axis + 1] - point[root.axis + 1]
         IN  IF IsLeaf(root) THEN found
             ELSE IF Len(found) < k \/ DeltaLeDistance(metric, delta, found[k].distance)
             THEN SearchRecursively(points, metric, root.right, query, k,
                      SearchRecursively(points, metric, root.left, query, k, found))
             ELSE IF delta < 0
             THEN SearchRecursively(points, metric, root.left, query, k, found)
             ELSE SearchRecursively(points, metric, root.right, query, k, found)

\* KDTreeSearch::search
KDTreeSearch(points, metric, root, query, k) ==
    IF k = 0 THEN <<>>
    ELSE Truncate(SortByDistance(
            SearchRecursively(points, metric, root, query, k, <<>>)), k)

\* Option<Neighbor>::None
NoNeighbor == [index |-> None, distance |-> MaxValue]

\* KDTreeSearch::search_nearest_recursively
RECURSIVE SearchNearestRecursively(_, _, _, _, _)
SearchNearestRecursively(points, metric, root, query, best_neighbor) ==
    IF root.index = None THEN best_neighbor
    ELSE LET point == points[root.index + 1]
             distance == Measure(metric, point, query)
             nearest == Neighbor(root.index, distance)
             delta == query[root.axis + 1] - point[root.axis + 1]
             primary == IF delta < 0 THEN root.left ELSE root.right
             secondary == IF delta < 0 THEN root.right ELSE root.left
             nearest2 == SearchNearestRecursively(points, metric, primary, query, nearest)
         IN  IF distance >= best_neighbor.distance THEN best_neighbor
             ELSE IF IsLeaf(root) THEN nearest
             ELSE IF DeltaLtDistance(metric, delta, nearest2.distance)
             THEN SearchNearestRecursively(points, metric, secondary, query, nearest2)
             ELSE nearest2

\* KDTreeSearch::search_nearest
KDTreeSearchNearest(points, metric, root, query) ==
    SearchNearestRecursively(points, metric, root, query, NoNeighbor)

\* KDTreeSearch::search_radius_recursively
RECURSIVE SearchRadiusRecursively(_, _, _, _, _, _)
SearchRadiusRecursively(points, metric, root, query, radius, neighbors) ==
    IF root.index = None THEN neighbors
    ELSE LET point == points[root.index + 1]
             distance == Measure(metric, point, query)
             found == IF distance <= radius
                      THEN Append(neighbors, Neighbor(root.index, distance))
                      ELSE neighbors
             delta == query[root.axis + 1] - point[root.axis + 1]
         IN  IF DeltaLeDistance(metric, delta, radius)
             THEN SearchRadiusRecursively(points, metric, root.right, query, radius,
                      SearchRadiusRecursively(points, metric, root.left, query, radius, found))
             ELSE IF delta < 0
             THEN SearchRadiusRecursively(points, metric, root.left, query, radius, found)
             ELSE SearchRadiusRecursively(points, metric, root.right, query, radius, found)

\* KDTreeSearch::search_radius
KDTreeSearchRadius(points, metric, root, query, radius) ==
    IF radius < 0 THEN <<>>
    ELSE SearchRadiusRecursively(points, metric, root, query, radius, <<>>)

\* ---------------------------------------------------- clustering/cluster.rs
\* Point::set_zero
ZeroPoint(point) == [d \in 1 .. Dimension(point) |-> 0]

\* Cluster::new
ClusterNew(initial_centroid) == [centroid |-> initial_centroid, membership |-> <<>>]

\* An insert that pushes the index and leaves the centroid as it is
ClusterPush(cluster, index, point) ==
    [centroid |-> cluster.centroid, membership |-> Append(cluster.membership, index)]

\* Cluster::insert
ClusterInsert(cluster, index, point) ==
    LET len == Len(cluster.membership)
    IN  [centroid |-> [d \in 1 .. Dimension(point) |->
                          (cluster.centroid[d] * len + point[d]) \div (len + 1)],
         membership |-> Append(cluster.membership, index)]

\* Cluster::clear
ClusterClear(cluster) == [centroid |-> ZeroPoint(cluster.centroid), membership |-> <<>>]

MaxInserts == 3     \* inserts into a cluster between two clears
MaxIndex == 1       \* largest index inserted into a cluster

\* The points inserted into a cluster and the centroids it is created with
ClusterPoints == {<<0, 0>>, <<Unit, 0>>, <<Scale, Unit>>}

\* --------------------------------------------- clustering/gmeans/algorithm.rs
MaxGmPoints == 6    \* points handed to Gmeans::fit
MaxMaxK == 3        \* largest max_k
MaxMinSize == 3     \* largest min_cluster_size
MaxHeap == 4        \* clusters waiting in the heap of Gmeans::fit

\* The points of the G-means runs: three rows of the first and the last
\* column of the grid, handed over in scan order (by x, then by y)
GmGrid == {p \in Grid : p[1] \in {0, Scale} /\ p[2] \in {0, Unit, Scale}}
ScanOrder(p, q) == p[1] < q[1] \/ (p[1] = q[1] /\ p[2] <= q[2])

\* difference >= self.tolerance, for the tolerance 1e-3 of cluster_with_gmeans
ToleranceReached(metric, difference) ==
    IF metric = "Euclidean"
    THEN difference >= (Scale * Scale) \div 1000000 + 1
    ELSE difference >= (Scale * Scale) \div 1000 + 1

\* Gmeans::assign, second loop: every point goes to the cluster of its nearest centroid
RECURSIVE AssignPoints(_, _, _, _, _, _, _)
AssignPoints(clusters, centroids, root, metric, indices, points, x) ==
    IF x > Len(indices) THEN clusters
    ELSE LET index == indices[x]
             point == points[index + 1]
             Insert(nearest) ==
                 IF nearest.index = None THEN clusters
                 ELSE [clusters EXCEPT ![nearest.index + 1] =
                          ClusterInsert(clusters[nearest.index + 1], index, point)]
         IN  AssignPoints(Insert(KDTreeSearchNearest(centroids, metric, root, point)),
                          centroids, root, metric, indices, points, x + 1)

\* Gmeans::assign: the clusters afterwards and the returned flag
Assign(clusters, indices, points, metric) ==
    LET centroids == [c \in 1 .. Len(clusters) |-> clusters[c].centroid]
        cleared == [c \in 1 .. Len(clusters) |-> ClusterClear(clusters[c])]
        Converged(assigned) ==
            [clusters |-> assigned,
             converged |-> \A c \in 1 .. Len(assigned) :
                              assigned[c].membership = <<>>
                              \/ ~ToleranceReached(metric,
                                    Measure(metric, centroids[c], assigned[c].centroid))]
    IN  Converged(AssignPoints(cleared, centroids, KDTreeNew(centroids), metric,
                               indices, points, 1))

\* Gmeans::split, the loop: at most max_iter rounds of assign
RECURSIVE SplitIterate(_, _, _, _, _)
SplitIterate(clusters, membership, points, metric, iterations) ==
    IF iterations = 0 THEN clusters
    ELSE LET Continue(assigned) ==
                 IF assigned.converged THEN assigned.clusters
                 ELSE SplitIterate(assigned.clusters, membership, points, metric,
                                   iterations - 1)
         IN  Continue(Assign(clusters, membership, points, metric))

\* Gmeans::split: the two clusters
Split(cluster, points, metric, max_iter) ==
    LET membership == cluster.membership
        size == Len(membership)
        seeds == [i \in 1 .. 2 |->
                    ClusterNew(points[membership[(size * i) \div 3 + 1] + 1])]
    IN  SplitIterate(seeds, membership, points, metric, max_iter)

RECURSIVE DotSum(_, _, _)
DotSum(p, q, d) == IF d = 0 THEN 0 ELSE DotSum(p, q, d - 1) + p[d] * q[d]

\* Point::dot
Dot(p, q) == DotSum(p, q, Dimension(p))

\* Point::sub
Sub(p, q) == [d \in 1 .. Dimension(p) |-> p[d] - q[d]]

\* point.dot(&v) for the points of the cluster, v = centroid1 - centroid2; the
\* division by vp and standardize are the same affine map on every one of them
Projections(cluster, halves, points) ==
    LET v == Sub(halves[1].centroid, halves[2].centroid)
    IN  [x \in 1 .. Len(cluster.membership) |-> Dot(points[cluster.membership[x] + 1], v)]

Range(f) == {f[x] : x \in DOMAIN f}

\* The outcomes of `score < 1.8692` in Gmeans::fit.  The score is not a number,
\* and the comparison false, when v is zero or all projections are equal (0 / 0
\* in x or in standardize).  A sample of two distinct values scores at least
\* 2.54 (its minimum, at three and three).  Three equally spaced values score
\* 1.2547.  The score of any other sample is not computed here: both outcomes.
ScoreBelowCritical(cluster, halves, points) ==
    LET v == Sub(halves[1].centroid, halves[2].centroid)
        x == Projections(cluster, halves, points)
        values == Range(x)
    IN  IF Dot(v, v) = 0 \/ Cardinality(values) <= 2 THEN {FALSE}
        ELSE IF Len(x) = 3 /\ \E a, b, c \in values : a < b /\ b < c /\ b - a = c - b
             THEN {TRUE}
             ELSE BOOLEAN

\* The test of the size against 1 alone
AtMostOne(largest_size, min_cluster_size) == largest_size <= 1

\* largest_size < self.min_cluster_size || largest_size <= 1
TooSmall(largest_size, min_cluster_size) ==
    largest_size < min_cluster_size \/ largest_size <= 1

\* Gmeans::fit, the loop: the cluster lists it can return, one for every
\* outcome of the Anderson-Darling tests
RECURSIVE GmeansLoop(_, _, _, _, _, _, _)
GmeansLoop(heap, clusters, points, max_k, max_iter, min_cluster_size, metric) ==
    IF Len(clusters) >= max_k \/ heap = <<>> THEN {clusters}
    ELSE LET Test(largest, halves) ==
                 UNION {IF accepted
                        THEN GmeansLoop(largest.heap, clusters \o <<halves[1], halves[2]>>,
                                        points, max_k, max_iter, min_cluster_size, metric)
                        ELSE GmeansLoop(
                                 HeapPush(
                                     HeapPush(largest.heap,
                                              [item |-> halves[1],
                                               key |-> Len(halves[1].membership)]),
                                     [item |-> halves[2], key |-> Len(halves[2].membership)]),
                                 clusters, points, max_k, max_iter, min_cluster_size, metric)
                        : accepted \in ScoreBelowCritical(largest.item.item, halves, points)}
             Step(largest) ==
                 IF TooSmall(largest.item.key, min_cluster_size) THEN {clusters}
                 ELSE Test(largest, Split(largest.item.item, points, metric, max_iter))
         IN  Step(HeapPop(heap))

\* Gmeans::fit: the cluster lists it can return
GmeansFit(points, max_k, max_iter, min_cluster_size, metric) ==
    IF points = <<>> THEN {<<>>}
    ELSE LET Start(first) ==
                 IF first.converged THEN {first.clusters}
                 ELSE GmeansLoop(<<[item |-> first.clusters[1],
                                    key |-> Len(first.clusters[1].membership)]>>,
                                 <<>>, points, max_k, max_iter, min_cluster_size, metric)
         IN  Start(Assign(<<ClusterNew(points[Len(points) \div 2 + 1])>>,
                          [i \in 1 .. Len(points) |-> i - 1], points, metric))

\* ------------------------------------------------- clustering/dbscan/label.rs
\* Label::Assigned(cluster_id) is cluster_id
Undefined == -1
Marked == -2
Outlier == -3

IsAssigned(label) == label >= 0

\* --------------------------------------------- clustering/dbscan/algorithm.rs
MaxDbPoints == 3    \* points handed to a DBSCAN that is run on its own
MaxMinSamples == 2  \* largest min_samples of it
MaxEpsilon == 4     \* largest epsilon of it, in Unit^2

\* The points handed to it: two rows of three points
DbGrid == {p \in Grid : p[1] \in {0, Unit, Scale} /\ p[2] \in {0, Unit}}

\* DBSCAN::expand_cluster, the loop over a secondary neighbourhood
RECURSIVE VisitSecondary(_, _, _, _)
VisitSecondary(secondary_neighbors, x, queue, labels) ==
    IF x > Len(secondary_neighbors) THEN [queue |-> queue, labels |-> labels]
    ELSE LET secondary_index == secondary_neighbors[x].index
         IN  IF labels[secondary_index + 1] = Undefined
             THEN VisitSecondary(secondary_neighbors, x + 1, Append(queue, secondary_index),
                                 [labels EXCEPT ![secondary_index + 1] = Marked])
             ELSE IF labels[secondary_index + 1] = Outlier
                  THEN VisitSecondary(secondary_neighbors, x + 1,
                                      Append(queue, secondary_index), labels)
                  ELSE VisitSecondary(secondary_neighbors, x + 1, queue, labels)

\* DBSCAN::expand_cluster: the labels when the queue is empty
RECURSIVE ExpandCluster(_, _, _, _, _, _, _, _)
ExpandCluster(cluster_id, points, metric, root, epsilon, min_samples, queue, labels) ==
    IF queue = <<>> THEN labels
    ELSE LET current_index == Head(queue)
             assigned == [labels EXCEPT ![current_index + 1] = cluster_id]
             Continue(visited) ==
                 ExpandCluster(cluster_id, points, metric, root, epsilon, min_samples,
                               visited.queue, visited.labels)
             Expand(secondary_neighbors) ==
                 IF Len(secondary_neighbors) < min_samples
                 THEN [queue |-> Tail(queue), labels |-> assigned]
                 ELSE VisitSecondary(secondary_neighbors, 1, Tail(queue), assigned)
         IN  IF IsAssigned(labels[current_index + 1])
             THEN ExpandCluster(cluster_id, points, metric, root, epsilon, min_samples,
                                Tail(queue), labels)
             ELSE IF labels[current_index + 1] = Outlier
                  THEN ExpandCluster(cluster_id, points, metric, root, epsilon, min_samples,
                                     Tail(queue), assigned)
                  ELSE Continue(Expand(KDTreeSearchRadius(points, metric, root,
                                                          points[current_index + 1],
                                                          epsilon)))

\* DBSCAN::fit, the loop over the points: the labels at the end
RECURSIVE FitLabels(_, _, _, _, _, _, _, _)
FitLabels(points, metric, root, epsilon, min_samples, index, labels, cluster_id) ==
    IF index >= Len(points) THEN labels
    ELSE IF labels[index + 1] # Undefined
         THEN FitLabels(points, metric, root, epsilon, min_samples, index + 1, labels,
                        cluster_id)
         ELSE LET Visit(neighbors) ==
                      IF Len(neighbors) < min_samples
                      THEN FitLabels(points, metric, root, epsilon, min_samples, index + 1,
                                     [labels EXCEPT ![index + 1] = Outlier], cluster_id)
                      ELSE FitLabels(
                               points, metric, root, epsilon, min_samples, index + 1,
                               ExpandCluster(
                                   cluster_id, points, metric, root, epsilon, min_samples,
                                   [x \in 1 .. Len(neighbors) |-> neighbors[x].index],
                                   [i \in 1 .. Len(labels) |->
                                       IF \E x \in 1 .. Len(neighbors) :
                                              neighbors[x].index = i - 1
                                       THEN Marked ELSE labels[i]]),
                               cluster_id + 1)
              IN  Visit(KDTreeSearchRadius(points, metric, root, points[index + 1], epsilon))

\* DBSCAN::fit, cluster_map: the cluster of one id, its points inserted by index
RECURSIVE CollectCluster(_, _, _, _, _)
CollectCluster(points, labels, cluster_id, index, cluster) ==
    IF index >= Len(points) THEN cluster
    ELSE CollectCluster(points, labels, cluster_id, index + 1,
                        IF labels[index + 1] = cluster_id
                        THEN ClusterInsert(cluster, index, points[index + 1])
                        ELSE cluster)

\* The clusters of cluster_map, by cluster id
RECURSIVE CollectClusters(_, _, _)
CollectClusters(points, labels, cluster_id) ==
    IF cluster_id >= Len(points) THEN <<>>
    ELSE (IF \E i \in 1 .. Len(labels) : labels[i] = cluster_id
          THEN <<CollectCluster(points, labels, cluster_id, 0,
                                [centroid |-> ZeroPoint(points[1]), membership |-> <<>>])>>
          ELSE <<>>)
         \o CollectClusters(points, labels, cluster_id + 1)

\* DBSCAN::fit: the clusters by cluster id, and the outlier set
DbscanFit(points, min_samples, epsilon, metric) ==
    IF points = <<>> THEN [clusters |-> <<>>, outliers |-> {}]
    ELSE LET Collect(labels) ==
                 [clusters |-> CollectClusters(points, labels, 0),
                  outliers |-> {i - 1 : i \in {j \in 1 .. Len(labels) : labels[j] = Outlier}}]
         IN  Collect(FitLabels(points, metric, KDTreeNew(points), epsilon, min_samples, 0,
                               [i \in 1 .. Len(points) |-> Undefined], 0))

\* HashMap::into_iter on cluster_map: the clusters in any order
ClusterOrders(clusters) ==
    {[i \in 1 .. Len(clusters) |-> clusters[order[i]]] :
        order \in Permutations(1 .. Len(clusters))}

\* min_samples of the DBSCAN that merges the colours in
\* Palette::extract_with_algorithm
ColorMinSamples == 1

\* ------------------------------------------------------------ algorithm.rs
GmeansMaxK == 32
GmeansMaxIter == 8
GmeansMinClusterSize == 16
DbscanMinSamples == 16

\* epsilon 0.0016 of cluster_with_dbscan, as a squared sum of coordinates / Scale
DbscanEpsilon == (16 * Scale * Scale) \div 10000

Algorithms == {"GMeans", "DBSCAN"}

\* Algorithm::apply: the cluster lists it can return
Apply(algorithm, points) ==
    IF algorithm = "GMeans"
    THEN GmeansFit(points, GmeansMaxK, GmeansMaxIter, GmeansMinClusterSize, "SquaredEuclidean")
    ELSE ClusterOrders(
             DbscanFit(points, DbscanMinSamples, DbscanEpsilon, "SquaredEuclidean").clusters)

\* ---------------------------------------------------------------- palette.rs
MaxPixels == 4      \* largest number of pixels of an image

\* The pixel colours of the model
PixelColors == {"red", "green", "blue", "white"}

\* Lab::from(&XYZ::from(&rgb)) for the pixel colours, in whole Lab units: the
\* values of the formulas of xyz.rs and lab.rs
LabOf(rgb) ==
    IF rgb = "red" THEN [l |-> 53, a |-> 80, b |-> 67]
    ELSE IF rgb = "green" THEN [l |-> 88, a |-> 0 - 86, b |-> 83]
    ELSE IF rgb = "blue" THEN [l |-> 32, a |-> 79, b |-> 0 - 108]
    ELSE IF rgb = "white" THEN [l |-> 100, a |-> 0, b |-> 0]
    ELSE [l |-> 0, a |-> 0, b |-> 0]

MinL == 0
MaxL == 100
MinA == -128
MaxA == 127
MinB == -128
MaxB == 127

\* Lab::new
LabNew(l, a, b) ==
    [l |-> Clamp(l, MinL, MaxL), a |-> Clamp(a, MinA, MaxA), b |-> Clamp(b, MinB, MaxB)]

\* num / den to the nearest integer, den > 0
Round(num, den) == (2 * num + den) \div (2 * den)

\* Normalize::normalize, the result in 1 / Scale
Normalize(value, min, max) == Round((Clamp(value, min, max) - min) * Scale, max - min)

\* Normalize::denormalize of a value in 1 / Scale
Denormalize(value, min, max) == Clamp(Round(value * (max - min), Scale) + min, min, max)

\* value.denormalize(0, max).to_u32() of a value in 1 / Scale
DenormalizeToU32(value, max) == Clamp((value * max) \div Scale, 0, max)

ColorTypes == {"Rgb8", "Rgba8", "L8"}

\* The pixels an image can hold: opaque ones of the pixel colours (white only
\* for L8), and for Rgba8 the transparent black one
PixelSet(color_type) ==
    IF color_type = "L8" THEN {[rgb |-> "white", alpha |-> 255]}
    ELSE {[rgb |-> c, alpha |-> 255] : c \in PixelColors}
            \cup (IF color_type = "Rgba8" THEN {[rgb |-> "black", alpha |-> 0]} ELSE {})

\* ImageData::channels
Channels(image) == IF image.color_type = "Rgba8" THEN 4 ELSE 3

\* convert_to_pixels without the test of the alpha channel
RECURSIVE ConvertToPixelsKeepingAll(_, _)
ConvertToPixelsKeepingAll(image, i) ==
    IF i >= Len(image.data) THEN <<>>
    ELSE LET lab == LabOf(image.data[i + 1].rgb)
         IN  << <<Normalize(lab.l, MinL, MaxL),
                  Normalize(lab.a, MinA, MaxA),
                  Normalize(lab.b, MinB, MaxB),
                  ((i % image.width) * Scale) \div image.width,
                  ((i \div image.width) * Scale) \div image.height>> >>
             \o ConvertToPixelsKeepingAll(image, i + 1)

\* convert_to_pixels, from chunk i on
RECURSIVE ConvertToPixels(_, _)
ConvertToPixels(image, i) ==
    IF i >= Len(image.data) THEN <<>>
    ELSE LET chunk == image.data[i + 1]
             lab == LabOf(chunk.rgb)
             x == i % image.width
             y == i \div image.width
         IN  (IF Channels(image) >= 4 /\ chunk.alpha = 0 THEN <<>>
              ELSE << <<Normalize(lab.l, MinL, MaxL),
                        Normalize(lab.a, MinA, MaxA),
                        Normalize(lab.b, MinB, MaxB),
                        (x * Scale) \div image.width,
                        (y * Scale) \div image.height>> >>)
             \o ConvertToPixels(image, i + 1)

\* pixel_cluster_to_swatch of a cluster that is not empty
PixelClusterToSwatch(pixel_cluster, width, height) ==
    LET centroid == pixel_cluster.centroid
    IN  Swatch(LabNew(Denormalize(centroid[1], MinL, MaxL),
                      Denormalize(centroid[2], MinA, MaxA),
                      Denormalize(centroid[3], MinB, MaxB)),
               <<DenormalizeToU32(centroid[4], width), DenormalizeToU32(centroid[5], height)>>,
               Len(pixel_cluster.membership))

\* filter_map(pixel_cluster_to_swatch): the candidates
RECURSIVE Candidates(_, _, _)
Candidates(pixel_clusters, width, height) ==
    IF pixel_clusters = <<>> THEN <<>>
    ELSE (IF Head(pixel_clusters).membership = <<>> THEN <<>>
          ELSE <<PixelClusterToSwatch(Head(pixel_clusters), width, height)>>)
         \o Candidates(Tail(pixel_clusters), width, height)

\* color_cluster_to_swatch, the fold over the members after the first
RECURSIVE FoldSwatches(_, _, _, _)
FoldSwatches(previous, membership, x, candidates) ==
    IF x > Len(membership) THEN previous
    ELSE LET current == candidates[membership[x] + 1]
             population == previous.population + current.population
         IN  FoldSwatches(
                 Swatch(Mix(previous.color, current.color, current.population, population),
                        IF 2 * current.population <= population
                        THEN previous.position ELSE current.position,
                        population),
                 membership, x + 1, candidates)

\* filter_map(color_cluster_to_swatch): the swatches of the palette
RECURSIVE ColorClustersToSwatches(_, _)
ColorClustersToSwatches(swatch_clusters, candidates) ==
    IF swatch_clusters = <<>> THEN <<>>
    ELSE LET membership == Head(swatch_clusters).membership
         IN  (IF membership = <<>> THEN <<>>
              ELSE <<FoldSwatches(candidates[membership[1] + 1], membership, 2, candidates)>>)
             \o ColorClustersToSwatches(Tail(swatch_clusters), candidates)

\* Delta E 2.3 of Palette::extract_with_algorithm, squared and rounded down:
\* the squared sums of whole Lab units up to 2.3^2 = 5.29 are those up to 5
ColorEpsilon == 5

\* dbscan.fit(&colors) of Palette::extract_with_algorithm: the color clusters by
\* cluster id, and the outlier set
FitColors(candidates) ==
    DbscanFit([c \in 1 .. Len(candidates) |->
                  <<candidates[c].color.l, candidates[c].color.a, candidates[c].color.b>>],
              ColorMinSamples, ColorEpsilon, "Euclidean")

\* dbscan.fit(&colors) of Palette::extract_with_algorithm: the lists of color
\* clusters it can return for the candidates, one for every order
SwatchClustersOf(candidates) == ClusterOrders(FitColors(candidates).clusters)

\* Palette::extract_with_algorithm after Algorithm::apply: the palettes it can
\* build from the pixel clusters, one for every order of the color clusters
PalettesOf(pixel_clusters, width, height) ==
    LET Merge(candidates) ==
            {ColorClustersToSwatches(swatch_clusters, candidates) :
                swatch_clusters \in SwatchClustersOf(candidates)}
    IN  Merge(Candidates(pixel_clusters, width, height))

MaxClusters == 3    \* clusters of pixels found in an image
MaxRuns == 2        \* extractions from one image

\* The colours of the pixel clusters, as Lab in whole units
Gray50 == [l |-> 50, a |-> 0, b |-> 0]
Gray50a2 == [l |-> 50, a |-> 2, b |-> 0]
Gray50a4 == [l |-> 50, a |-> 4, b |-> 0]
Gray10 == [l |-> 10, a |-> 0, b |-> 0]
Gray13 == [l |-> 13, a |-> 0, b |-> 0]
ClusterColors == {Gray50, Gray50a2, Gray50a4, Gray10, Gray13}

\* ciede2000 of two colours of ClusterColors, in hundredths: the values of the
\* formula of delta_e.rs on these Lab triples
ClusterDeltaE(c1, c2) ==
    IF c1 = c2 THEN 0
    ELSE IF {c1, c2} = {Gray50, Gray50a2} THEN 281
    ELSE IF {c1, c2} = {Gray50a2, Gray50a4} THEN 249
    ELSE IF {c1, c2} = {Gray50, Gray50a4} THEN 529
    ELSE IF {c1, c2} = {Gray10, Gray13} THEN 191
    ELSE IF {c1, c2} = {Gray50, Gray10} THEN 3094
    ELSE IF {c1, c2} = {Gray50, Gray13} THEN 2914
    ELSE IF {c1, c2} = {Gray50a2, Gray10} THEN 3107
    ELSE IF {c1, c2} = {Gray50a2, Gray13} THEN 2928
    ELSE IF {c1, c2} = {Gray50a4, Gray10} THEN 3139
    ELSE 2962

\* Delta E 2.3 in hundredths
DeltaE23 == 230

\* The side of the images whose pixel clusters the model draws
ImageSide == 10

\* ---- add/extract.rs: the Extract component and its worker threads ----
MaxWorkers == 2
Workers == 1 .. MaxWorkers
\* utils::get_random_name(5): one of the names the generator can draw
Names == {"aaaaa", "zzzzz"}
\* the DragValue of max_color ranges over 1..=255
MaxColorValues == {1, 10}

\* the guard of the spawn with its test of hthread left out
ClickedOnly(clicked, hthread) == clicked

\* `ui.button(..).clicked() && self.hthread.is_none()`
CanSpawn(clicked, hthread) == clicked /\ hthread = None

NoLocals == [basename |-> "", theme |-> "", algorithm |-> "", max_color |-> 0]
NotSpawned == [status |-> "unspawned", locals |-> NoLocals]

\* the values the closure of thread::spawn moves into the worker
Locals(name, theme, algo, max_color) ==
    [basename |-> name, theme |-> theme, algorithm |-> algo, max_color |-> max_color]

\* the colors a worker sends: the named colours of the swatches extracted
\* with its algorithm, theme and max_color, kept here as the values they are
\* computed from
Colors(locals) == <<locals>>

\* an Option of colors: <<>> is None (for try_recv, Err), <<colors>> is Some(colors)
NoColors == <<>>

\* mpsc::Receiver::try_recv on the receiver of channel c
TryRecv(queues, c) == IF queues[c] # <<>> THEN <<Head(queues[c])>> ELSE NoColors

\* ------------------------------------------------------------- state
VARIABLES hc_leaves, hc_dist, hc_linkage, hc_nodes, hc_n, hc_membership, hc_pc,
          pal_swatches, pal_n, pal_theme, pal_result, pal_groups, pal_pc,
          kd_points, kd_metric, kd_root, kd_query, kd_k, kd_radius, kd_result, kd_pc,
          gm_points, gm_metric, gm_max_k, gm_max_iter, gm_min_cluster_size,
          gm_heap, gm_clusters, gm_pc,
          ex_image, ex_algorithm, ex_palette, ex_n, ex_result, ex_pc,
          db_points, db_metric, db_min_samples, db_epsilon, db_clusters, db_outliers, db_pc,
          mg_algorithm, mg_clusters, mg_runs, mg_pc,
          cl_initial, cl_cluster, cl_inserted, cl_pc,
          wk_name, wk_theme, wk_algo, wk_max_color, wk_hthread, wk_channel,
          wk_threads, wk_queues, wk_clicked, wk_returned, wk_received, wk_pc

hcvars == <<hc_leaves, hc_dist, hc_linkage, hc_nodes, hc_n, hc_membership, hc_pc>>
palvars == <<pal_swatches, pal_n, pal_theme, pal_result, pal_groups, pal_pc>>
kdvars == <<kd_points, kd_metric, kd_root, kd_query, kd_k, kd_radius, kd_result, kd_pc>>
gmvars == <<gm_points, gm_metric, gm_max_k, gm_max_iter, gm_min_cluster_size,
            gm_heap, gm_clusters, gm_pc>>
exvars == <<ex_image, ex_algorithm, ex_palette, ex_n, ex_result, ex_pc>>
dbvars == <<db_points, db_metric, db_min_samples, db_epsilon, db_clusters, db_outliers,
            db_pc>>
mgvars == <<mg_algorithm, mg_clusters, mg_runs, mg_pc>>
clvars == <<cl_initial, cl_cluster, cl_inserted, cl_pc>>
wkvars == <<wk_name, wk_theme, wk_algo, wk_max_color, wk_hthread, wk_channel,
            wk_threads, wk_queues, wk_clicked, wk_returned, wk_received, wk_pc>>
vars == <<hcvars, palvars, kdvars, gmvars, exvars, dbvars, mgvars, clvars, wkvars>>

\* ---- hierarchical merge: a dataset is fitted, then partitioned ----
HcIdle ==
    /\ hc_leaves = 0
    /\ hc_dist = <<>>
    /\ hc_linkage = "CompleteLinkage"
    /\ hc_nodes = <<>>
    /\ hc_n = 0
    /\ hc_membership = <<>>
    /\ hc_pc = "idle"

HcInit ==
    /\ hc_leaves \in 1 .. MaxLeaves
    /\ hc_dist \in [Pairs(hc_leaves) -> 0 .. MaxDist]
    /\ hc_linkage \in Linkages
    /\ hc_nodes = <<>>
    /\ hc_n = 0
    /\ hc_membership = <<>>
    /\ hc_pc = "new"

HcFit ==
    /\ hc_pc = "new"
    /\ hc_nodes' = IF hc_linkage = "SingleLinkage" THEN Fit(hc_leaves, hc_dist)
                    ELSE FitWithLinkage(hc_leaves, hc_dist)
    /\ hc_pc' = "fitted"
    /\ UNCHANGED <<hc_leaves, hc_dist, hc_linkage, hc_n, hc_membership>>

HcPartition ==
    /\ hc_pc = "fitted"
    /\ \E n \in 0 .. MaxN :
          /\ hc_n' = n
          /\ hc_membership' = Partition(hc_nodes, n)
    /\ hc_pc' = "partitioned"
    /\ UNCHANGED <<hc_leaves, hc_dist, hc_linkage, hc_nodes>>

\* ---- palette: a palette is built once, then asked for swatches ----
PalIdle ==
    /\ pal_swatches = <<>>
    /\ pal_n = 0
    /\ pal_theme = "population"
    /\ pal_result = <<>>
    /\ pal_groups = <<>>
    /\ pal_pc = "idle"

\* Palette::new: the position of swatch i is (i, 0)
PalInit ==
    /\ \E m \in 0 .. MaxSwatches :
          \E colors \in [1 .. m -> 1 .. Len(ColorList)], pops \in [1 .. m -> {1, MaxPop}] :
              /\ \A i \in 1 .. m - 1 : colors[i] <= colors[i + 1]
              /\ pal_swatches = [i \in 1 .. m |->
                                    Swatch(ColorList[colors[i]], <<i - 1, 0>>, pops[i])]
    /\ pal_n = 0
    /\ pal_theme = "population"
    /\ pal_result = <<>>
    /\ pal_groups = <<>>
    /\ pal_pc = "ready"

PalSwatches ==
    /\ pal_pc = "ready"
    /\ \E n \in 0 .. MaxN :
          /\ pal_n' = n
          /\ IF SwatchesPanics(pal_swatches, n)
             THEN pal_result' = pal_result /\ pal_pc' = "panicked"
             ELSE pal_result' = Swatches(pal_swatches, n) /\ pal_pc' = "returned"
          /\ pal_groups' = IF pal_swatches = <<>> THEN <<>>
                           ELSE FindGroups(pal_swatches, n, "population")
    /\ pal_theme' = "population"
    /\ UNCHANGED pal_swatches

PalSwatchesWithTheme ==
    /\ pal_pc = "ready"
    /\ \E n \in 0 .. MaxN, theme \in Themes :
          /\ pal_n' = n
          /\ pal_theme' = theme
          /\ IF SwatchesPanics(pal_swatches, n)
             THEN pal_result' = pal_result /\ pal_pc' = "panicked"
             ELSE /\ pal_result' = SwatchesWithTheme(pal_swatches, n, theme)
                  /\ pal_pc' = "returned"
          /\ pal_groups' = IF pal_swatches = <<>> THEN <<>>
                           ELSE FindGroups(pal_swatches, n, theme)
    /\ UNCHANGED pal_swatches

\* ---- k-d tree: an index is built over a point set, then queried ----
KdIdle ==
    /\ kd_points = <<>>
    /\ kd_metric = "Euclidean"
    /\ kd_root = NoNode
    /\ kd_query = <<0, 0>>
    /\ kd_k = 0
    /\ kd_radius = 0
    /\ kd_result = <<>>
    /\ kd_pc = "idle"

KdInit ==
    /\ \E n \in 0 .. MaxPoints : kd_points \in [1 .. n -> Grid]
    /\ kd_metric \in Metrics
    /\ kd_root = NoNode
    /\ kd_query = <<0, 0>>
    /\ kd_k = 0
    /\ kd_radius = 0
    /\ kd_result = <<>>
    /\ kd_pc = "new"

KdNew ==
    /\ kd_pc = "new"
    /\ kd_root' = KDTreeNew(kd_points)
    /\ kd_pc' = "built"
    /\ UNCHANGED <<kd_points, kd_metric, kd_query, kd_k, kd_radius, kd_result>>

KdSearch ==
    /\ kd_pc = "built"
    /\ \E query \in Grid, k \in 1 .. MaxK :
          /\ kd_query' = query
          /\ kd_k' = k
          /\ kd_result' = KDTreeSearch(kd_points, kd_metric, kd_root, query, k)
    /\ kd_pc' = "search"
    /\ UNCHANGED <<kd_points, kd_metric, kd_root, kd_radius>>

KdSearchNearest ==
    /\ kd_pc = "built"
    /\ \E query \in Grid :
          /\ kd_query' = query
          /\ kd_result' = <<KDTreeSearchNearest(kd_points, kd_metric, kd_root, query)>>
    /\ kd_pc' = "search_nearest"
    /\ UNCHANGED <<kd_points, kd_metric, kd_root, kd_k, kd_radius>>

KdSearchRadius ==
    /\ kd_pc = "built"
    /\ \E query \in Grid, r \in (0 - 1) .. MaxRadius :
          /\ kd_query' = query
          /\ kd_radius' = r * Unit * Unit
          /\ kd_result' = KDTreeSearchRadius(kd_points, kd_metric, kd_root, query,
                                              r * Unit * Unit)
    /\ kd_pc' = "search_radius"
    /\ UNCHANGED <<kd_points, kd_metric, kd_root, kd_k>>

\* ---- G-means: fit runs its loop one iteration at a time ----
GmIdle ==
    /\ gm_points = <<>>
    /\ gm_metric = "SquaredEuclidean"
    /\ gm_max_k = 2
    /\ gm_max_iter = 0
    /\ gm_min_cluster_size = 0
    /\ gm_heap = <<>>
    /\ gm_clusters = <<>>
    /\ gm_pc = "idle"

\* Gmeans::new: max_k >= 2 is asserted
GmInit ==
    /\ \E n \in 0 .. MaxGmPoints : gm_points \in [1 .. n -> GmGrid]
    /\ \A i \in 1 .. Len(gm_points) - 1 : ScanOrder(gm_points[i], gm_points[i + 1])
    /\ gm_metric \in Metrics
    /\ gm_max_k \in 2 .. MaxMaxK
    /\ gm_max_iter \in {1, 8}
    /\ gm_min_cluster_size \in {1, MaxMinSize}
    /\ gm_heap = <<>>
    /\ gm_clusters = <<>>
    /\ gm_pc = "new"

\* Gmeans::fit up to the loop: no points, or one cluster that may have converged
GmFit ==
    /\ gm_pc = "new"
    /\ IF gm_points = <<>>
       THEN /\ gm_clusters' = <<>>
            /\ gm_heap' = <<>>
            /\ gm_pc' = "done"
       ELSE \E first \in {Assign(<<ClusterNew(gm_points[Len(gm_points) \div 2 + 1])>>,
                                 [i \in 1 .. Len(gm_points) |-> i - 1],
                                 gm_points, gm_metric)} :
                IF first.converged
                THEN /\ gm_clusters' = first.clusters
                     /\ gm_heap' = <<>>
                     /\ gm_pc' = "done"
                ELSE /\ gm_clusters' = <<>>
                     /\ gm_heap' = <<[item |-> first.clusters[1],
                                      key |-> Len(first.clusters[1].membership)]>>
                     /\ gm_pc' = "loop"
    /\ UNCHANGED <<gm_points, gm_metric, gm_max_k, gm_max_iter, gm_min_cluster_size>>

\* The loop ends: max_k reached, the heap is empty, or the largest cluster is small
GmStop ==
    /\ gm_pc = "loop"
    /\ \/ Len(gm_clusters) >= gm_max_k /\ gm_heap' = gm_heap
       \/ Len(gm_clusters) < gm_max_k /\ gm_heap = <<>> /\ gm_heap' = gm_heap
       \/ /\ Len(gm_clusters) < gm_max_k
          /\ gm_heap # <<>>
          /\ \E largest \in {HeapPop(gm_heap)} :
                 /\ TooSmall(largest.item.key, gm_min_cluster_size)
                 /\ gm_heap' = largest.heap
    /\ gm_pc' = "done"
    /\ UNCHANGED <<gm_points, gm_metric, gm_max_k, gm_max_iter, gm_min_cluster_size,
                   gm_clusters>>

\* One iteration that splits the largest cluster and takes one of the outcomes
\* of the Anderson-Darling test.  The heap of the model holds MaxHeap clusters.
GmSplit ==
    /\ gm_pc = "loop"
    /\ Len(gm_clusters) < gm_max_k
    /\ gm_heap # <<>>
    /\ \E largest \in {HeapPop(gm_heap)} :
           /\ ~TooSmall(largest.item.key, gm_min_cluster_size)
           /\ \E halves \in {Split(largest.item.item, gm_points, gm_metric, gm_max_iter)} :
              \E accepted \in ScoreBelowCritical(largest.item.item, halves, gm_points) :
                  IF accepted
                  THEN /\ gm_clusters' = gm_clusters \o <<halves[1], halves[2]>>
                       /\ gm_heap' = largest.heap
                  ELSE /\ Len(largest.heap) + 2 <= MaxHeap
                       /\ gm_clusters' = gm_clusters
                       /\ gm_heap' = HeapPush(
                              HeapPush(largest.heap,
                                       [item |-> halves[1],
                                        key |-> Len(halves[1].membership)]),
                              [item |-> halves[2], key |-> Len(halves[2].membership)])
    /\ gm_pc' = "loop"
    /\ UNCHANGED <<gm_points, gm_metric, gm_max_k, gm_max_iter, gm_min_cluster_size>>

\* ---- extraction: a palette is extracted from an image, then asked for swatches ----
ExIdle ==
    /\ ex_image = [color_type |-> "Rgb8", width |-> 0, height |-> 0, data |-> <<>>]
    /\ ex_algorithm = "DBSCAN"
    /\ ex_palette = <<>>
    /\ ex_n = 0
    /\ ex_result = <<>>
    /\ ex_pc = "idle"

\* A DynamicImage and the algorithm handed to Palette::extract_with_algorithm
\* (Palette::extract hands DBSCAN)
ExInit ==
    /\ \E color_type \in ColorTypes, width \in 0 .. MaxPixels :
          \E height \in {h \in 0 .. MaxPixels : width * h <= MaxPixels} :
              \E data \in [1 .. width * height -> PixelSet(color_type)] :
                  ex_image = [color_type |-> color_type, width |-> width, height |-> height,
                              data |-> data]
    /\ ex_algorithm \in Algorithms
    /\ ex_palette = <<>>
    /\ ex_n = 0
    /\ ex_result = <<>>
    /\ ex_pc = "image"

\* Palette::extract_with_algorithm on an Rgb8 or Rgba8 image
ExExtract ==
    /\ ex_pc = "image"
    /\ ex_image.color_type \in {"Rgb8", "Rgba8"}
    /\ \E pixel_clusters \in Apply(ex_algorithm, ConvertToPixels(ex_image, 0)) :
          \E palette \in PalettesOf(pixel_clusters, ex_image.width, ex_image.height) :
              ex_palette' = palette
    /\ ex_pc' = "extracted"
    /\ UNCHANGED <<ex_image, ex_algorithm, ex_n, ex_result>>

\* Palette::extract_with_algorithm on any other image: unimplemented!
ExUnsupported ==
    /\ ex_pc = "image"
    /\ ex_image.color_type \notin {"Rgb8", "Rgba8"}
    /\ ex_pc' = "panicked"
    /\ UNCHANGED <<ex_image, ex_algorithm, ex_palette, ex_n, ex_result>>

\* Palette::swatches on the extracted palette
ExSwatches ==
    /\ ex_pc = "extracted"
    /\ \E n \in 0 .. MaxN :
          /\ ex_n' = n
          /\ ex_result' = Swatches(ex_palette, n)
    /\ ex_pc' = "returned"
    /\ UNCHANGED <<ex_image, ex_algorithm, ex_palette>>

\* ---- DBSCAN: a point set is clustered once ----
DbIdle ==
    /\ db_points = <<>>
    /\ db_metric = "SquaredEuclidean"
    /\ db_min_samples = 0
    /\ db_epsilon = 0
    /\ db_clusters = <<>>
    /\ db_outliers = {}
    /\ db_pc = "idle"

\* DBSCAN::new and the points handed to fit; epsilon in steps of Unit^2
DbInit ==
    /\ \E n \in 0 .. MaxDbPoints : db_points \in [1 .. n -> DbGrid]
    /\ db_metric \in Metrics
    /\ db_min_samples \in {1, MaxMinSamples}
    /\ \E r \in 0 .. MaxEpsilon : db_epsilon = r * Unit * Unit
    /\ db_clusters = <<>>
    /\ db_outliers = {}
    /\ db_pc = "new"

\* DBSCAN::fit
DbFit ==
    /\ db_pc = "new"
    /\ \E fitted \in {DbscanFit(db_points, db_min_samples, db_epsilon, db_metric)} :
           /\ db_clusters' \in ClusterOrders(fitted.clusters)
           /\ db_outliers' = fitted.outliers
    /\ db_pc' = "fitted"
    /\ UNCHANGED <<db_points, db_metric, db_min_samples, db_epsilon>>

\* ---- merge: palettes are extracted from the pixel clusters of one image ----
MgIdle ==
    /\ mg_algorithm = "DBSCAN"
    /\ mg_clusters = <<>>
    /\ mg_runs = <<>>
    /\ mg_pc = "idle"

\* The clusters of pixels that the algorithm finds in an image of ImageSide x
\* ImageSide pixels, in the order of their labels: cluster c lies at column c - 1
\* and holds DbscanMinSamples or twice as many pixels of one colour
MgInit ==
    /\ mg_algorithm \in Algorithms
    /\ \E k \in 0 .. MaxClusters :
          \E colors \in [1 .. k -> ClusterColors],
             sizes \in [1 .. k -> {DbscanMinSamples, 2 * DbscanMinSamples}] :
              mg_clusters =
                  [c \in 1 .. k |->
                      [centroid |-> <<Normalize(colors[c].l, MinL, MaxL),
                                      Normalize(colors[c].a, MinA, MaxA),
                                      Normalize(colors[c].b, MinB, MaxB),
                                      ((c - 1) * Scale) \div ImageSide, 0>>,
                       membership |-> [m \in 1 .. sizes[c] |-> m - 1]]]
    /\ mg_runs = <<>>
    /\ mg_pc = "clusters"

\* Palette::extract_with_algorithm from algorithm.apply(&pixels) on: DBSCAN
\* returns the pixel clusters in any order, G-means in the order of the labels
MgExtract ==
    /\ mg_pc = "clusters"
    /\ Len(mg_runs) < MaxRuns
    /\ \E pixel_clusters \in (IF mg_algorithm = "DBSCAN" THEN ClusterOrders(mg_clusters)
                                ELSE {mg_clusters}) :
          \E candidates \in {Candidates(pixel_clusters, ImageSide, ImageSide)} :
              \E fitted \in {FitColors(candidates)} :
                  \E swatch_clusters \in ClusterOrders(fitted.clusters) :
                      mg_runs' = Append(mg_runs,
                                        [candidates |-> candidates,
                                         swatch_clusters |-> swatch_clusters,
                                         outliers |-> fitted.outliers,
                                         swatches |-> ColorClustersToSwatches(swatch_clusters,
                                                                              candidates)])
    /\ UNCHANGED <<mg_algorithm, mg_clusters, mg_pc>>

\* ---- cluster: a cluster is created, then points are inserted and cleared ----
ClIdle ==
    /\ cl_initial = <<>>
    /\ cl_cluster = ClusterNew(<<>>)
    /\ cl_inserted = <<>>
    /\ cl_pc = "idle"

\* Cluster::new; cl_inserted records the index and the point of every insert
\* since the last clear
ClInit ==
    /\ cl_initial \in ClusterPoints
    /\ cl_cluster = ClusterNew(cl_initial)
    /\ cl_inserted = <<>>
    /\ cl_pc = "new"

\* Cluster::insert
ClInsert ==
    /\ cl_pc \in {"new", "inserted", "cleared"}
    /\ Len(cl_inserted) < MaxInserts
    /\ \E index \in 0 .. MaxIndex, point \in ClusterPoints :
          /\ cl_cluster' = ClusterInsert(cl_cluster, index, point)
          /\ cl_inserted' = Append(cl_inserted, [index |-> index, point |-> point])
    /\ cl_pc' = "inserted"
    /\ UNCHANGED cl_initial

\* Cluster::clear
ClClear ==
    /\ cl_pc \in {"new", "inserted", "cleared"}
    /\ cl_cluster' = ClusterClear(cl_cluster)
    /\ cl_inserted' = <<>>
    /\ cl_pc' = "cleared"
    /\ UNCHANGED cl_initial

\* ---- the Extract component ----
WkIdle ==
    /\ wk_name = ""
    /\ wk_theme = "Vivid"
    /\ wk_algo = "GMeans"
    /\ wk_max_color = 10
    /\ wk_hthread = None
    /\ wk_channel = None
    /\ wk_threads = [w \in Workers |-> NotSpawned]
    /\ wk_queues = [w \in Workers |-> <<>>]
    /\ wk_clicked = FALSE
    /\ wk_returned = NoColors
    /\ wk_received = [w \in Workers |-> 0]
    /\ wk_pc = "idle"

\* Extract::new; wk_threads are the threads spawned so far, wk_queues the
\* messages buffered in each thread's channel, wk_received the number of times
\* paint_ui returned the colors of each thread
ExtractNew ==
    /\ wk_name \in Names
    /\ wk_theme = "Vivid"
    /\ wk_algo = "GMeans"
    /\ wk_max_color = 10
    /\ wk_hthread = None
    /\ wk_channel = None
    /\ wk_threads = [w \in Workers |-> NotSpawned]
    /\ wk_queues = [w \in Workers |-> <<>>]
    /\ wk_clicked = FALSE
    /\ wk_returned = NoColors
    /\ wk_received = [w \in Workers |-> 0]
    /\ wk_pc = "frame"

Spawned == Cardinality({w \in Workers : wk_threads[w].status # "unspawned"})

\* the widget the user acts on in one frame, if any
Widgets == {"none", "name", "max_color", "theme", "algo", "extract"}

\* Extract::paint_ui up to the spinner: the widget acted on sets name,
\* max_color, theme or algo, and a click on Extract spawns a worker when
\* hthread is None. The worker runs concurrently, so the try_recv of the same
\* call is a step of its own that the worker may precede.
WkPaintWidgets ==
    /\ wk_pc = "frame"
    /\ \E widget \in Widgets :
          \E name \in (IF widget = "name" THEN Names ELSE {wk_name}),
             max_color \in (IF widget = "max_color" THEN MaxColorValues ELSE {wk_max_color}),
             theme \in (IF widget = "theme" THEN Themes ELSE {wk_theme}),
             algo \in (IF widget = "algo" THEN Algorithms ELSE {wk_algo}),
             clicked \in {widget = "extract"} :
              /\ wk_name' = name
              /\ wk_max_color' = max_color
              /\ wk_theme' = theme
              /\ wk_algo' = algo
              /\ wk_clicked' = clicked
              /\ IF CanSpawn(clicked, wk_hthread)
                    THEN /\ Spawned < MaxWorkers
                         /\ wk_channel' = Spawned + 1
                         /\ wk_hthread' = Spawned + 1
                         /\ wk_threads' = [wk_threads EXCEPT ![Spawned + 1] =
                                [status |-> "running",
                                 locals |-> Locals(name, theme, algo, max_color)]]
                    ELSE UNCHANGED <<wk_channel, wk_hthread, wk_threads>>
    /\ wk_returned' = NoColors
    /\ wk_pc' = "painted"
    /\ UNCHANGED <<wk_queues, wk_received>>

\* Extract::paint_ui from `if let Some(rx) = &self.channel` to its return
WkPaintRecv ==
    /\ wk_pc = "painted"
    /\ IF wk_channel # None /\ TryRecv(wk_queues, wk_channel) # NoColors
          THEN /\ wk_hthread' = None
               /\ wk_channel' = None
               /\ wk_name' \in Names
               /\ wk_returned' = TryRecv(wk_queues, wk_channel)
               /\ wk_queues' = [wk_queues EXCEPT ![wk_channel] = Tail(@)]
               /\ wk_received' = [wk_received EXCEPT ![wk_channel] = @ + 1]
          ELSE /\ wk_returned' = NoColors
               /\ UNCHANGED <<wk_hthread, wk_channel, wk_name, wk_queues, wk_received>>
    /\ wk_pc' = "frame"
    /\ UNCHANGED <<wk_theme, wk_algo, wk_max_color, wk_threads, wk_clicked>>

\* the worker's closure runs to `tx.send(colors).unwrap()` and ends
WkSend ==
    \E w \in Workers :
        /\ wk_threads[w].status = "running"
        /\ wk_queues' = [wk_queues EXCEPT ![w] = Append(@, Colors(wk_threads[w].locals))]
        /\ wk_threads' = [wk_threads EXCEPT ![w] = [status |-> "finished", locals |-> NoLocals]]
        /\ UNCHANGED <<wk_name, wk_theme, wk_algo, wk_max_color, wk_hthread, wk_channel,
                       wk_clicked, wk_returned, wk_received, wk_pc>>

\* the worker's closure panics inside the extraction: tx is dropped unsent
WkPanic ==
    \E w \in Workers :
        /\ wk_threads[w].status = "running"
        /\ wk_threads' = [wk_threads EXCEPT ![w] = [status |-> "panicked", locals |-> NoLocals]]
        /\ UNCHANGED <<wk_name, wk_theme, wk_algo, wk_max_color, wk_hthread, wk_channel,
                       wk_queues, wk_clicked, wk_returned, wk_received, wk_pc>>

\* ---- specifications ----
HierInit ==
    HcInit /\ PalIdle /\ KdIdle /\ GmIdle /\ ExIdle /\ DbIdle /\ MgIdle /\ ClIdle /\ WkIdle
HierNext ==
    \/ HcFit /\ UNCHANGED <<palvars, kdvars, gmvars, exvars, dbvars, mgvars, clvars, wkvars>>
    \/ HcPartition /\ UNCHANGED <<palvars, kdvars, gmvars, exvars, dbvars, mgvars, clvars, wkvars>>
SpecHier == HierInit /\ [][HierNext]_vars

PaletteInit ==
    PalInit /\ HcIdle /\ KdIdle /\ GmIdle /\ ExIdle /\ DbIdle /\ MgIdle /\ ClIdle /\ WkIdle
PaletteNext ==
    \/ PalSwatches /\ UNCHANGED <<hcvars, kdvars, gmvars, exvars, dbvars, mgvars, clvars, wkvars>>
    \/ PalSwatchesWithTheme /\ UNCHANGED <<hcvars, kdvars, gmvars, exvars, dbvars, mgvars, clvars, wkvars>>
SpecPalette == PaletteInit /\ [][PaletteNext]_vars

KDTreeInit ==
    KdInit /\ HcIdle /\ PalIdle /\ GmIdle /\ ExIdle /\ DbIdle /\ MgIdle /\ ClIdle /\ WkIdle
KDTreeNext ==
    \/ KdNew /\ UNCHANGED <<hcvars, palvars, gmvars, exvars, dbvars, mgvars, clvars, wkvars>>
    \/ KdSearch /\ UNCHANGED <<hcvars, palvars, gmvars, exvars, dbvars, mgvars, clvars, wkvars>>
    \/ KdSearchNearest /\ UNCHANGED <<hcvars, palvars, gmvars, exvars, dbvars, mgvars, clvars, wkvars>>
    \/ KdSearchRadius /\ UNCHANGED <<hcvars, palvars, gmvars, exvars, dbvars, mgvars, clvars, wkvars>>
SpecKDTree == KDTreeInit /\ [][KDTreeNext]_vars

GmeansInit ==
    GmInit /\ HcIdle /\ PalIdle /\ KdIdle /\ ExIdle /\ DbIdle /\ MgIdle /\ ClIdle /\ WkIdle
GmeansNext ==
    \/ GmFit /\ UNCHANGED <<hcvars, palvars, kdvars, exvars, dbvars, mgvars, clvars, wkvars>>
    \/ GmStop /\ UNCHANGED <<hcvars, palvars, kdvars, exvars, dbvars, mgvars, clvars, wkvars>>
    \/ GmSplit /\ UNCHANGED <<hcvars, palvars, kdvars, exvars, dbvars, mgvars, clvars, wkvars>>
SpecGmeans == GmeansInit /\ [][GmeansNext]_vars

ExtractInit ==
    ExInit /\ HcIdle /\ PalIdle /\ KdIdle /\ GmIdle /\ DbIdle /\ MgIdle /\ ClIdle /\ WkIdle
ExtractNext ==
    \/ ExExtract /\ UNCHANGED <<hcvars, palvars, kdvars, gmvars, dbvars, mgvars, clvars, wkvars>>
    \/ ExUnsupported /\ UNCHANGED <<hcvars, palvars, kdvars, gmvars, dbvars, mgvars, clvars, wkvars>>
    \/ ExSwatches /\ UNCHANGED <<hcvars, palvars, kdvars, gmvars, dbvars, mgvars, clvars, wkvars>>
SpecExtract == ExtractInit /\ [][ExtractNext]_vars

DbscanInit ==
    DbInit /\ HcIdle /\ PalIdle /\ KdIdle /\ GmIdle /\ ExIdle /\ MgIdle /\ ClIdle /\ WkIdle
DbscanNext == DbFit /\ UNCHANGED <<hcvars, palvars, kdvars, gmvars, exvars, mgvars, clvars, wkvars>>
SpecDbscan == DbscanInit /\ [][DbscanNext]_vars

MergeInit ==
    MgInit /\ HcIdle /\ PalIdle /\ KdIdle /\ GmIdle /\ ExIdle /\ DbIdle /\ ClIdle /\ WkIdle
MergeNext == MgExtract /\ UNCHANGED <<hcvars, palvars, kdvars, gmvars, exvars, dbvars, clvars, wkvars>>
SpecMerge == MergeInit /\ [][MergeNext]_vars

ClusterInit ==
    ClInit /\ HcIdle /\ PalIdle /\ KdIdle /\ GmIdle /\ ExIdle /\ DbIdle /\ MgIdle /\ WkIdle
ClusterNext ==
    \/ ClInsert /\ UNCHANGED <<hcvars, palvars, kdvars, gmvars, exvars, dbvars, mgvars, wkvars>>
    \/ ClClear /\ UNCHANGED <<hcvars, palvars, kdvars, gmvars, exvars, dbvars, mgvars, wkvars>>
SpecCluster == ClusterInit /\ [][ClusterNext]_vars

WorkerInit ==
    ExtractNew /\ HcIdle /\ PalIdle /\ KdIdle /\ GmIdle /\ ExIdle /\ DbIdle /\ MgIdle /\ ClIdle
\* one call of paint_ui
WorkerFrame ==
    \/ WkPaintWidgets /\ UNCHANGED <<hcvars, palvars, kdvars, gmvars, exvars, dbvars, mgvars, clvars>>
    \/ WkPaintRecv /\ UNCHANGED <<hcvars, palvars, kdvars, gmvars, exvars, dbvars, mgvars, clvars>>
WorkerNext ==
    \/ WorkerFrame
    \/ WkSend /\ UNCHANGED <<hcvars, palvars, kdvars, gmvars, exvars, dbvars, mgvars, clvars>>
    \/ WkPanic /\ UNCHANGED <<hcvars, palvars, kdvars, gmvars, exvars, dbvars, mgvars, clvars>>
\* the shown component is painted every frame, and its spinner keeps the
\* frames coming while hthread is Some; a worker may never end
SpecWorker == WorkerInit /\ [][WorkerNext]_vars /\ WF_vars(WorkerFrame)

\* C1: partition(n) returns exactly min(n, L) nodes for a dendrogram of L leaves
C1_PartitionReturnsMinNL ==
    hc_pc = "partitioned" => Len(hc_membership) = Min(hc_n, hc_leaves)

\* C2: the nodes returned by partition(n), n >= 1, have pairwise disjoint
\* leaf sets covering all leaves, and no node is returned twice
C2_PartitionIsAPartition ==
    (hc_pc = "partitioned" /\ hc_n >= 1) =>
        /\ \A x, y \in 1 .. Len(hc_membership) :
              x # y => LeafSet(hc_nodes, hc_membership[x].label)
                          \cap LeafSet(hc_nodes, hc_membership[y].label) = {}
        /\ UNION {LeafSet(hc_nodes, hc_membership[x].label) : x \in 1 .. Len(hc_membership)}
              = 0 .. hc_leaves - 1

\* The palette holds swatches of pairwise distinct colours
DistinctColors ==
    \A i, j \in 1 .. Len(pal_swatches) :
        i # j => pal_swatches[i].color # pal_swatches[j].color

\* C3: for a palette of m >= 1 swatches of distinct colours and n >= m,
\* swatches(n) and swatches_with_theme(n, theme) return exactly m swatches,
\* each equal to a different swatch of the palette
C3_OversizedRequestReturnsPalette ==
    (pal_pc = "returned" /\ DistinctColors /\ pal_n >= Len(pal_swatches)) =>
        /\ Len(pal_result) = Len(pal_swatches)
        /\ \A i \in 1 .. Len(pal_swatches) :
              Cardinality({x \in 1 .. Len(pal_result) : pal_result[x] = pal_swatches[i]}) = 1

\* Indices of a list of neighbors, in order
Indices(neighbors) == [x \in 1 .. Len(neighbors) |-> neighbors[x].index]

\* No two indexed points are at the same distance from the query
NoDistanceTies ==
    \A i, j \in 1 .. Len(kd_points) :
        i # j => Measure(kd_metric, kd_points[i], kd_query)
                    # Measure(kd_metric, kd_points[j], kd_query)

\* C4: on inputs without distance ties, KDTreeSearch::search(query, k) returns
\* the same neighbor indices in the same order as LinearSearch::search
C4_SearchMatchesLinear ==
    (kd_pc = "search" /\ NoDistanceTies) =>
        Indices(kd_result) = Indices(LinearSearch(kd_points, kd_metric, kd_query, kd_k))

\* C5: KDTreeSearch::search_radius returns exactly the indices within the
\* radius, the same set as LinearSearch::search_radius, and nothing for r < 0
C5_SearchRadiusMatchesLinear ==
    kd_pc = "search_radius" =>
        LET linear == LinearSearchRadius(kd_points, kd_metric, kd_query, kd_radius)
            returned == {kd_result[x].index : x \in 1 .. Len(kd_result)}
        IN  /\ returned = {i \in 0 .. Len(kd_points) - 1 :
                    kd_radius >= 0
                    /\ Measure(kd_metric, kd_points[i + 1], kd_query) <= kd_radius}
            /\ returned = {linear[x].index : x \in 1 .. Len(linear)}

\* C6: search_nearest returns None exactly when the index holds no points,
\* and otherwise a neighbor at the minimum distance from the query
C6_SearchNearestIsNearest ==
    kd_pc = "search_nearest" =>
        /\ (kd_result[1].index = None) <=> (kd_points = <<>>)
        /\ kd_points # <<>> =>
              /\ kd_result[1].index \in 0 .. Len(kd_points) - 1
              /\ kd_result[1].distance
                    = Measure(kd_metric, kd_points[kd_result[1].index + 1], kd_query)
              /\ \A i \in 1 .. Len(kd_points) :
                    kd_result[1].distance <= Measure(kd_metric, kd_points[i], kd_query)

\* C7: Gmeans::fit returns at most max_k clusters, for every max_k >= 2
C7_AtMostMaxKClusters ==
    gm_pc = "done" => Len(gm_clusters) <= gm_max_k

\* The 2x2 RGBA image of test_extract: opaque red, green, blue, white
FlagImage ==
    [color_type |-> "Rgba8", width |-> 2, height |-> 2,
     data |-> <<[rgb |-> "red", alpha |-> 255], [rgb |-> "green", alpha |-> 255],
                [rgb |-> "blue", alpha |-> 255], [rgb |-> "white", alpha |-> 255]>>]

\* C8 as stated: from the palette Palette::extract builds of the 2x2 image of
\* opaque red, green, blue and white, swatches(4) returns four swatches, the
\* four input colours with population 1 each, and swatches(1) returns one
\* swatch of population 4
C8_FlagImageYieldsItsColors ==
    (ex_pc = "returned" /\ ex_image = FlagImage /\ ex_algorithm = "DBSCAN") =>
        /\ ex_n = 4 =>
              /\ Len(ex_result) = 4
              /\ \A i \in 1 .. Len(ex_result) : ex_result[i].population = 1
              /\ {ex_result[i].color : i \in 1 .. Len(ex_result)}
                    = {LabOf(c) : c \in PixelColors}
        /\ ex_n = 1 => Len(ex_result) = 1 /\ ex_result[1].population = 4

\* C8 amended: the palette Palette::extract builds of the 2x2 image of opaque
\* red, green, blue and white has no swatch, so swatches(4) and swatches(1)
\* both return no swatch
C8_FlagImageYieldsNoSwatch ==
    (ex_pc = "returned" /\ ex_image = FlagImage /\ ex_algorithm = "DBSCAN"
        /\ ex_n \in {1, 4}) => ex_result = <<>>

C8_Witness ==
    /\ ex_pc = "returned"
    /\ ex_image = FlagImage
    /\ ex_algorithm = "DBSCAN"
    /\ ex_n = 4
    /\ ex_result = <<>>

\* The pixels of an image that convert_to_pixels keeps
NonTransparent(image) ==
    {i \in 1 .. Len(image.data) : ~(Channels(image) >= 4 /\ image.data[i].alpha = 0)}

\* C9: Palette::extract (DBSCAN, min_samples 16, squared radius 0.0016) of an
\* image with fewer than 16 non-transparent pixels returns the empty palette
\* (is_empty, len 0), every pixel being labelled an outlier
C9_FewPixelsGiveEmptyPalette ==
    (ex_pc \in {"extracted", "returned"} /\ ex_algorithm = "DBSCAN"
        /\ Cardinality(NonTransparent(ex_image)) < 16) =>
        /\ ex_palette = <<>>
        /\ Len(ex_palette) = 0
        /\ DbscanFit(ConvertToPixels(ex_image, 0), DbscanMinSamples, DbscanEpsilon,
                     "SquaredEuclidean").outliers
              = 0 .. Cardinality(NonTransparent(ex_image)) - 1

C9_Witness ==
    /\ ex_pc = "extracted"
    /\ ex_algorithm = "DBSCAN"
    /\ ex_image.width = 2 /\ ex_image.height = 2
    /\ Cardinality(NonTransparent(ex_image)) = 4
    /\ Cardinality({ex_image.data[i].rgb : i \in 1 .. 4}) = 4
    /\ ex_palette = <<>>

\* An Rgba8 image in which every pixel has alpha 0
AllTransparent(image) ==
    image.color_type = "Rgba8" /\ \A i \in 1 .. Len(image.data) : image.data[i].alpha = 0

\* C10: for an RGBA image in which every pixel has alpha 0,
\* extract_with_algorithm returns the empty palette under DBSCAN and under
\* GMeans and does not panic: convert_to_pixels drops every pixel and both
\* algorithms return no cluster for no point
C10_TransparentImageGivesEmptyPalette ==
    AllTransparent(ex_image) =>
        /\ ex_pc # "panicked"
        /\ ex_pc \in {"extracted", "returned"} => ex_palette = <<>>
        /\ ConvertToPixels(ex_image, 0) = <<>>
        /\ \A algorithm \in Algorithms : Apply(algorithm, <<>>) = {<<>>}

C10_Witness ==
    /\ ex_pc = "extracted"
    /\ AllTransparent(ex_image)
    /\ Len(ex_image.data) = MaxPixels
    /\ ex_algorithm = "GMeans"
    /\ ex_palette = <<>>

\* C11: swatches(n) and swatches_with_theme(n, theme) return the empty list
\* whenever n = 0 or the palette is empty, and do not panic in those cases
C11_NothingAskedOrNothingHeld ==
    (pal_pc \in {"returned", "panicked"} /\ (pal_n = 0 \/ pal_swatches = <<>>)) =>
        pal_pc = "returned" /\ pal_result = <<>>

C11_Witness ==
    /\ pal_pc = "returned"
    /\ pal_swatches = <<>>
    /\ pal_n = MaxN
    /\ pal_theme \in Themes
    /\ pal_result = <<>>

RECURSIVE GroupPopulation(_, _)
GroupPopulation(swatches, group) ==
    IF group = {} THEN 0
    ELSE LET i == CHOOSE i \in group : TRUE
         IN  swatches[i + 1].population + GroupPopulation(swatches, group \ {i})

\* The populations of a list of swatches, summed
RECURSIVE TotalPopulation(_)
TotalPopulation(swatches) ==
    IF swatches = <<>> THEN 0
    ELSE Head(swatches).population + TotalPopulation(Tail(swatches))

\* C13: for a palette of m swatches and 1 <= n <= m, the populations of the
\* swatches returned by swatches(n) and swatches_with_theme(n, theme) are the
\* sums of the populations of their groups, and sum to the population of the
\* whole palette
C13_PopulationsAreGroupSums ==
    (pal_pc = "returned" /\ 1 <= pal_n /\ pal_n <= Len(pal_swatches)) =>
        /\ Len(pal_result) = Len(pal_groups)
        /\ \A v \in 1 .. MaxSwatches * MaxPop :
              Cardinality({x \in 1 .. Len(pal_result) : pal_result[x].population = v})
                 = Cardinality({x \in 1 .. Len(pal_groups) :
                                   GroupPopulation(pal_swatches, pal_groups[x]) = v})
        /\ TotalPopulation(pal_result) = TotalPopulation(pal_swatches)

\* The number of swatches of each population in a list
PopulationCounts(swatches) ==
    [v \in 1 .. (MaxSwatches + 1) * MaxPop |->
        Cardinality({x \in 1 .. Len(swatches) : swatches[x].population = v})]

WeightGe(weight1, weight2) == weight1 # NaN /\ weight2 # NaN /\ weight1 >= weight2

\* C15: the list swatches(n) returns is in non-increasing order of population;
\* the list swatches_with_theme(n, theme) returns is in non-increasing order
\* of theme.weight and has at most n entries
C15_ResultsAreSortedDescending ==
    pal_pc = "returned" =>
        /\ Len(pal_result) <= pal_n
        /\ \A x \in 1 .. Len(pal_result) - 1 :
              WeightGe(Score(pal_theme, pal_result[x]), Score(pal_theme, pal_result[x + 1]))

\* The same without the lists that hold a weight that is not a number: no
\* entry is followed by one of greater weight
NoWeightInversion ==
    pal_pc = "returned" =>
        \A x, y \in 1 .. Len(pal_result) :
            (x < y /\ Score(pal_theme, pal_result[x]) # NaN
                   /\ Score(pal_theme, pal_result[y]) # NaN)
                => Score(pal_theme, pal_result[x]) >= Score(pal_theme, pal_result[y])

\* C16: after fit_with_linkage over n >= 1 items the dendrogram holds exactly
\* 2n - 1 nodes, the node at position i has label i, nodes 0 .. n-1 are leaves
\* without children, every later node has two children of smaller labels, and
\* every node but the last is the child of exactly one node
C16_DendrogramShape ==
    hc_pc \in {"fitted", "partitioned"} =>
        /\ Len(hc_nodes) = 2 * hc_leaves - 1
        /\ \A i \in 1 .. Len(hc_nodes) :
              /\ hc_nodes[i].label = i - 1
              /\ i <= hc_leaves =>
                    hc_nodes[i].node1 = None /\ hc_nodes[i].node2 = None
              /\ i > hc_leaves =>
                    /\ hc_nodes[i].node1 \in 0 .. i - 2
                    /\ hc_nodes[i].node2 \in 0 .. i - 2
              /\ i < Len(hc_nodes) =>
                    Cardinality({<<j, c>> \in (1 .. Len(hc_nodes)) \X {1, 2} :
                                    (IF c = 1 THEN hc_nodes[j].node1 ELSE hc_nodes[j].node2)
                                       = i - 1}) = 1

C16_Witness ==
    /\ hc_pc = "fitted"
    /\ hc_leaves = MaxLeaves
    /\ Len(hc_nodes) = 2 * MaxLeaves - 1
    /\ hc_nodes[Len(hc_nodes)].node1 # None
    /\ \E p, q \in Pairs(hc_leaves) : hc_dist[p] # hc_dist[q]

\* C17: two extractions from the same image with the same algorithm return
\* equal palettes: the same swatches, with the same color, position and
\* population, in the same order.
C17_RunsReturnEqualPalettes ==
    \A i, j \in 1 .. Len(mg_runs) : mg_runs[i].swatches = mg_runs[j].swatches

\* The candidates reached from those of the set by chains whose consecutive
\* CIEDE2000 differences are at most 2.3
RECURSIVE ChainFrom(_, _)
ChainFrom(candidates, reached) ==
    LET next == reached \cup
                    {j \in 1 .. Len(candidates) :
                        \E i \in reached :
                            ClusterDeltaE(candidates[i].color, candidates[j].color) <= DeltaE23}
    IN  IF next = reached THEN reached ELSE ChainFrom(candidates, next)

\* Candidates i and j of the run went into one swatch of the palette
SameSwatch(run, i, j) ==
    \E c \in 1 .. Len(run.swatch_clusters) :
        LET membership == run.swatch_clusters[c].membership
        IN  /\ \E x \in 1 .. Len(membership) : membership[x] = i - 1
            /\ \E x \in 1 .. Len(membership) : membership[x] = j - 1

\* C18: two candidates are merged into one swatch of the palette exactly when
\* a chain of candidates with consecutive CIEDE2000 differences of at most 2.3
\* links them.
C18_MergedIffLinkedByCiede2000 ==
    \A r \in 1 .. Len(mg_runs) :
        \A i, j \in 1 .. Len(mg_runs[r].candidates) :
            i # j => (SameSwatch(mg_runs[r], i, j)
                         <=> j \in ChainFrom(mg_runs[r].candidates, {i}))

\* The sum of coordinate d of the points inserted
RECURSIVE SumOfInserted(_, _)
SumOfInserted(inserted, d) ==
    IF inserted = <<>> THEN 0
    ELSE inserted[1].point[d] + SumOfInserted(Tail(inserted), d)

\* C19: the membership is the list of the indices inserted since the last
\* clear, in insertion order; while it is not empty the centroid is the
\* arithmetic mean of the points inserted since the last clear, whatever the
\* initial centroid; after clear the centroid is zero and the membership empty.
C19_CentroidIsMeanOfInserted ==
    cl_pc # "idle" =>
        /\ cl_cluster.membership = [x \in 1 .. Len(cl_inserted) |-> cl_inserted[x].index]
        /\ cl_inserted # <<>> =>
              \A d \in 1 .. Dimension(cl_cluster.centroid) :
                  cl_cluster.centroid[d] * Len(cl_inserted) = SumOfInserted(cl_inserted, d)
        /\ cl_pc = "cleared" => cl_cluster = [centroid |-> <<0, 0>>, membership |-> <<>>]

\* A cluster created with a centroid that is not zero holds two points, the
\* larger index inserted first
C19_Witness ==
    /\ cl_initial = <<Scale, Unit>>
    /\ cl_inserted = <<[index |-> 1, point |-> <<0, 0>>], [index |-> 0, point |-> <<Unit, 0>>]>>
    /\ cl_cluster.membership = <<1, 0>>

\* The cluster that the next iteration of the loop of Gmeans::fit pops is
\* smaller than min_cluster_size or holds at most one point
LargestIsSmall ==
    /\ gm_pc = "loop"
    /\ Len(gm_clusters) < gm_max_k
    /\ gm_heap # <<>>
    /\ LET size == Len(HeapPop(gm_heap).item.item.membership)
       IN  size < gm_min_cluster_size \/ size <= 1

\* C20: Gmeans::fit never splits a cluster smaller than min_cluster_size or of
\* at most one point: when the largest cluster popped from the heap is that
\* small, the loop stops, and neither the clusters nor the rest of the heap
\* receive a half of it.
C20_SmallClusterIsNeverSplit ==
    [][LargestIsSmall =>
          /\ gm_pc' = "done"
          /\ gm_clusters' = gm_clusters
          /\ gm_heap' = HeapPop(gm_heap).heap]_vars

\* A split was rejected and its halves are on the heap, the largest of them
\* with two points or more and fewer than min_cluster_size
C20_Witness ==
    /\ LargestIsSmall
    /\ Len(gm_heap) >= 2
    /\ Len(HeapPop(gm_heap).item.item.membership) >= 2

\* The indices of the points held by the nodes of a subtree
RECURSIVE SubtreeIndices(_)
SubtreeIndices(node) ==
    IF node.index = None THEN {}
    ELSE {node.index} \cup SubtreeIndices(node.left) \cup SubtreeIndices(node.right)

\* Every node of the subtree splits its points by its axis
RECURSIVE SplitsByAxis(_, _)
SplitsByAxis(node, points) ==
    IF node.index = None THEN TRUE
    ELSE LET value == points[node.index + 1][node.axis + 1]
         IN  /\ \A i \in SubtreeIndices(node.left) : points[i + 1][node.axis + 1] <= value
             /\ \A i \in SubtreeIndices(node.right) : points[i + 1][node.axis + 1] >= value
             /\ SplitsByAxis(node.left, points)
             /\ SplitsByAxis(node.right, points)

\* C21: after KDTreeSearch::new, for every node with split axis a, the points
\* of its left subtree have an a-coordinate <= that of the node's point and the
\* points of its right subtree an a-coordinate >= it, for every order of the
\* points.
C21_TreeSplitsByAxis ==
    kd_pc # "new" => SplitsByAxis(kd_root, kd_points)

\* The positions of cluster c at which index i is a member
MemberAt(clusters, c, i) ==
    {x \in 1 .. Len(clusters[c].membership) : clusters[c].membership[x] = i}

\* The number of times index i is a member of one of the clusters
RECURSIVE Memberships(_, _, _)
Memberships(clusters, c, i) ==
    IF c > Len(clusters) THEN 0
    ELSE Cardinality(MemberAt(clusters, c, i)) + Memberships(clusters, c + 1, i)

\* C22: the result of DBSCAN::fit partitions the point indices: every cluster
\* is non-empty, and every index is a member of exactly one cluster or of the
\* outlier set, never of both (no point keeps the label Marked or Undefined).
C22_FitPartitionsTheIndices ==
    db_pc = "fitted" =>
        /\ \A c \in 1 .. Len(db_clusters) : db_clusters[c].membership # <<>>
        /\ \A i \in 0 .. Len(db_points) - 1 :
              Memberships(db_clusters, 1, i) + (IF i \in db_outliers THEN 1 ELSE 0) = 1
        /\ db_outliers \subseteq 0 .. Len(db_points) - 1

\* Point j lies within epsilon of point i
WithinEpsilon(i, j) ==
    Measure(db_metric, db_points[i + 1], db_points[j + 1]) <= db_epsilon

\* Point j is a core point: its epsilon-neighbourhood holds min_samples points
CorePoint(j) ==
    Cardinality({k \in 0 .. Len(db_points) - 1 : WithinEpsilon(j, k)}) >= db_min_samples

\* C23: after DBSCAN::fit no index of the outlier set lies within epsilon of a
\* core point, whatever the order of the points.
C23_NoOutlierNearACorePoint ==
    db_pc = "fitted" =>
        \A i \in db_outliers :
            \A j \in 0 .. Len(db_points) - 1 : CorePoint(j) => ~WithinEpsilon(i, j)

\* The largest of the original distances between a leaf of node a and a leaf
\* of node b of the dendrogram
FarthestPair(a, b) ==
    LET between == {hc_dist[<<Min(x, y), Max(x, y)>>] :
                       <<x, y>> \in LeafSet(hc_nodes, a) \X LeafSet(hc_nodes, b)}
    IN  CHOOSE d \in between : \A e \in between : e <= d

\* The nodes that are active when the node with this label is made: the
\* earlier nodes that are no child of an earlier node
ActiveBefore(label) ==
    {a \in 0 .. label - 1 :
        \A x \in 1 .. label : hc_nodes[x].node1 # a /\ hc_nodes[x].node2 # a}

\* C24: with CompleteLinkage every merge of fit_with_linkage joins the two
\* active nodes with the smallest current linkage distance, and the distance of
\* the new node is the maximum of the original distances between a leaf of its
\* first child and a leaf of its second child.
C24_MergesClosestByFarthestPair ==
    (hc_pc \in {"fitted", "partitioned"} /\ hc_linkage = "CompleteLinkage") =>
        \A x \in hc_leaves + 1 .. Len(hc_nodes) :
            LET node == hc_nodes[x]
            IN  /\ node.node1 \in ActiveBefore(x - 1)
                /\ node.node2 \in ActiveBefore(x - 1)
                /\ node.node1 # node.node2
                /\ node.distance = FarthestPair(node.node1, node.node2)
                /\ \A a, b \in ActiveBefore(x - 1) :
                      a # b => node.distance <= FarthestPair(a, b)

\* Three items with three different distances are merged, the closest two first
C24_Witness ==
    /\ hc_pc = "fitted"
    /\ hc_linkage = "CompleteLinkage"
    /\ hc_leaves = 3
    /\ hc_dist[<<0, 1>>] = 2 /\ hc_dist[<<0, 2>>] = 1 /\ hc_dist[<<1, 2>>] = 0
    /\ Len(hc_nodes) = 5
    /\ hc_nodes[4].node1 = 1 /\ hc_nodes[4].node2 = 2
    /\ hc_nodes[5].distance = 2

\* C25: in a dendrogram built with SingleLinkage or CompleteLinkage every
\* merged node's distance is >= the distance of each of its children, so the
\* distances never decrease in label order and the last node has the largest.
C25_MergeDistancesNeverDecrease ==
    hc_pc \in {"fitted", "partitioned"} =>
        /\ \A x \in hc_leaves + 1 .. Len(hc_nodes) :
              /\ hc_nodes[x].distance >= hc_nodes[hc_nodes[x].node1 + 1].distance
              /\ hc_nodes[x].distance >= hc_nodes[hc_nodes[x].node2 + 1].distance
        /\ \A x \in 1 .. Len(hc_nodes) - 1 : hc_nodes[x].distance <= hc_nodes[x + 1].distance

\* With SingleLinkage three items at three different distances are merged
\* twice, the second merge at the smaller distance to the first pair
C25_Witness ==
    /\ hc_pc = "fitted"
    /\ hc_linkage = "SingleLinkage"
    /\ hc_leaves = 3
    /\ hc_dist[<<0, 1>>] = 2 /\ hc_dist[<<0, 2>>] = 1 /\ hc_dist[<<1, 2>>] = 0
    /\ Len(hc_nodes) = 5
    /\ hc_nodes[4].distance = 0
    /\ hc_nodes[5].distance = 1

\* The number of entries of a heap that hold at least this many points
AtLeastAsLarge(heap, size) ==
    Cardinality({x \in 1 .. Len(heap) : Len(heap[x].item.membership) >= size})

\* C26: whenever Gmeans::fit rejects a split, both halves pushed back on the
\* heap are strictly smaller than the cluster that was split, so the same
\* cluster is never popped and split again forever.
C26_RejectedHalvesAreSmaller ==
    [][(gm_pc = "loop" /\ gm_pc' = "loop" /\ gm_clusters' = gm_clusters) =>
          LET largest == HeapPop(gm_heap)
              size == Len(largest.item.item.membership)
          IN  AtLeastAsLarge(gm_heap', size) <= AtLeastAsLarge(largest.heap, size)]_vars

\* C27: the clusters returned by Gmeans::fit on a non-empty point set
\* partition the input: every input index is a member of exactly one returned
\* cluster, once, so the cluster sizes sum to the number of points.
C27_ReturnedClustersPartitionTheInput ==
    (gm_pc = "done" /\ gm_points # <<>>) =>
        \A i \in 0 .. Len(gm_points) - 1 : Memberships(gm_clusters, 1, i) = 1

\* The sum of the populations of a list of swatches
RECURSIVE SumOfPopulations(_)
SumOfPopulations(swatches) ==
    IF swatches = <<>> THEN 0
    ELSE Head(swatches).population + SumOfPopulations(Tail(swatches))

\* C28: the DBSCAN of stage C (min_samples 1) returns an empty outlier set:
\* every candidate ends in exactly one cluster of colors, and the populations of
\* the swatches of the palette sum to the populations of all candidates.
C28_NoCandidateIsAnOutlier ==
    \A r \in 1 .. Len(mg_runs) :
        /\ mg_runs[r].outliers = {}
        /\ \A i \in 1 .. Len(mg_runs[r].candidates) :
              Memberships(mg_runs[r].swatch_clusters, 1, i - 1) = 1
        /\ SumOfPopulations(mg_runs[r].swatches) = SumOfPopulations(mg_runs[r].candidates)

\* C29: whenever find_swatch merges two swatches the denominator score1 +
\* score2 of the fraction is not zero, so the merged color is a defined value:
\* no swatch returned by swatches / swatches_with_theme has a color that is
\* not a number.
C29_MergedColorsAreDefined ==
    pal_pc = "returned" =>
        \A x \in 1 .. Len(pal_result) :
            /\ pal_result[x].color.l # NaN
            /\ pal_result[x].color.a # NaN
            /\ pal_result[x].color.b # NaN

\* the workers whose result paint_ui has not returned yet: running, or ended
\* with their colors still in the channel
Outstanding == {w \in Workers : wk_threads[w].status = "running" \/ wk_queues[w] # <<>>}

\* at most one worker is outstanding, it is the one hthread and channel hold,
\* and no worker's colors were returned twice or dropped
OneWorker ==
    /\ Cardinality(Outstanding) <= 1
    /\ \A w \in Outstanding : wk_hthread = w /\ wk_channel = w
    /\ (wk_hthread = None) <=> (wk_channel = None)
    /\ \A w \in Workers :
          /\ wk_received[w] <= 1
          /\ wk_threads[w].status = "finished" =>
                Len(wk_queues[w]) + wk_received[w] = 1

\* a spawn needs a click with hthread None and sets hthread and channel; a
\* click with hthread Some changes no thread
SpawnOnlyWhenNone ==
    /\ (\E w \in Workers :
            wk_threads[w].status = "unspawned" /\ wk_threads'[w].status # "unspawned")
          => /\ wk_hthread = None /\ wk_channel = None
             /\ wk_clicked'
             /\ wk_hthread' # None /\ wk_channel' = wk_hthread'
             /\ wk_threads'[wk_hthread'] =
                    [status |-> "running",
                     locals |-> Locals(wk_name', wk_theme', wk_algo', wk_max_color')]
             /\ Cardinality({w \in Workers : wk_threads'[w] # wk_threads[w]}) = 1
    /\ (wk_pc = "frame" /\ wk_pc' = "painted" /\ wk_clicked' /\ wk_hthread # None)
          => /\ wk_threads' = wk_threads
             /\ wk_hthread' = wk_hthread
             /\ wk_channel' = wk_channel

\* hthread and channel go back to None only in the step that returns the
\* colors of the worker they held
ResetOnlyOnReceive ==
    ((wk_hthread # None /\ wk_hthread' = None) \/ (wk_channel # None /\ wk_channel' = None))
        => /\ wk_hthread' = None /\ wk_channel' = None
           /\ wk_queues[wk_channel] # <<>>
           /\ wk_returned' = <<Head(wk_queues[wk_channel])>>
           /\ wk_queues'[wk_channel] = <<>>
           /\ wk_received' = [wk_received EXCEPT ![wk_channel] = 1]

\* C30: in the Extract component at most one worker is outstanding at any
\* time: a worker is spawned only when hthread is None, a click on Extract
\* while a worker runs starts nothing, hthread and channel are reset to None
\* only when that worker's colors are received, and the colors a worker sends
\* are returned by paint_ui once: never twice, and, as long as the component
\* keeps being painted, eventually.
C30_OneOutstandingWorker ==
    /\ []OneWorker
    /\ [][SpawnOnlyWhenNone /\ ResetOnlyOnReceive]_vars
    /\ \A w \in Workers : (wk_queues[w] # <<>>) ~> (wk_received[w] = 1)

\* the first worker's colors were returned, the second worker is running, and
\* a click on Extract has just been ignored
C30_Witness ==
    /\ wk_received[1] = 1
    /\ wk_threads[1].status = "finished"
    /\ wk_hthread = 2 /\ wk_channel = 2
    /\ wk_threads[2].status = "running"
    /\ wk_threads[2].locals.theme # wk_theme
    /\ wk_clicked /\ wk_pc = "painted"
====
